---- MODULE Spec2Model ----
(***************************************************************************)
(* Model of the cite-wide citation engine (CitationService): identifier   *)
(* generation, marker scanning and grouping, and the rewrite operations.  *)
(* Documents are sequences of one-character strings; offsets are the      *)
(* 0-based JavaScript string offsets of the source.                       *)
(***************************************************************************)
EXTENDS Integers, Sequences, FiniteSets, TLC

VARIABLES doc, usedHexIds, issued, res, gen, ops, cmd

vars == <<doc, usedHexIds, issued, res, gen, ops, cmd>>

----------------------------------------------------------------------------
(* Bounds of the model *)

\* pieces per line of an initial document
MaxLinePieces == 2
\* lines of an initial document
MaxLines == 2
\* how many values of DrawTable Math.random can produce
MaxDraws == 4
\* the generator's loop iterations that are counted (the loop itself is unbounded)
MaxAttempts == 3
\* how many times in a row the spacing pass is applied
MaxPasses == 2
\* how many commands are run in one editing session
MaxOps == 2

----------------------------------------------------------------------------
(* Characters and JavaScript string primitives *)

Digit == {"0", "1", "2", "3", "4", "5", "6", "7", "8", "9"}
HexLetter == {"a", "b", "c", "d", "e", "f"}
DigitChars == <<"0", "1", "2", "3", "4", "5", "6", "7", "8", "9",
                "a", "b", "c", "d", "e", "f", "g", "h", "i", "j", "k", "l", "m",
                "n", "o", "p", "q", "r", "s", "t", "u", "v", "w", "x", "y", "z">>
Letter == {DigitChars[i] : i \in 11..36}
HexChar == Digit \cup HexLetter
Space == {" ", "\t"}
NL == "\n"

Min(a, b) == IF a < b THEN a ELSE b
Max(a, b) == IF a > b THEN a ELSE b

\* String.prototype.substring(a, b): both ends clamped, swapped when a > b
substring(s, a, b) ==
    LET ca == Max(0, Min(a, Len(s)))
        cb == Max(0, Min(b, Len(s)))
    IN  SubSeq(s, Min(ca, cb) + 1, Max(ca, cb))

\* String.prototype.substring(a)
substringFrom(s, a) == substring(s, a, Len(s))

\* does pat occur in s at 0-based offset i
OccursAt(s, pat, i) ==
    /\ i >= 0
    /\ i + Len(pat) <= Len(s)
    /\ \A j \in 1..Len(pat) : s[i + j] = pat[j]

\* String.prototype.indexOf(pat, from)
RECURSIVE indexOfFrom(_, _, _)
indexOfFrom(s, pat, from) ==
    LET f == Max(0, Min(from, Len(s)))
    IN  IF f + Len(pat) > Len(s) THEN -1
        ELSE IF OccursAt(s, pat, f) THEN f
        ELSE indexOfFrom(s, pat, f + 1)

indexOf(s, pat) == indexOfFrom(s, pat, 0)

\* String.prototype.split('\n')
RECURSIVE splitFrom(_, _, _)
splitFrom(s, p, cur) ==
    IF p > Len(s) THEN <<cur>>
    ELSE IF s[p] = NL THEN <<cur>> \o splitFrom(s, p + 1, <<>>)
    ELSE splitFrom(s, p + 1, Append(cur, s[p]))

split(s) == splitFrom(s, 1, <<>>)

\* Array.prototype.join('\n')
RECURSIVE join(_)
join(ls) ==
    IF Len(ls) = 0 THEN <<>>
    ELSE IF Len(ls) = 1 THEN ls[1]
    ELSE ls[1] \o <<NL>> \o join(Tail(ls))

\* length of the longest run of characters of class cls that starts at 1-based p
RECURSIVE RunLen(_, _, _)
RunLen(s, p, cls) ==
    IF p <= Len(s) /\ s[p] \in cls THEN 1 + RunLen(s, p + 1, cls) ELSE 0

CharAt(s, i) == IF i >= 0 /\ i < Len(s) THEN s[i + 1] ELSE ""

----------------------------------------------------------------------------
(* Identifier generator *)

\* length of an identifier: padStart(6, '0')
IdLen == 6

\* Number.prototype.toString(radix), most significant digit first
RECURSIVE toStringRadix(_, _)
toStringRadix(num, radix) ==
    IF num < radix THEN <<DigitChars[num + 1]>>
    ELSE Append(toStringRadix(num \div radix, radix), DigitChars[(num % radix) + 1])

\* String.prototype.padStart(IdLen, '0')
RECURSIVE padStart(_)
padStart(s) == IF Len(s) >= IdLen THEN s ELSE padStart(<<"0">> \o s)

\* the values Math.floor(Math.random() * 36^6) is let to take:
\* 00000a, 00000z, 0000a1, 000000, aaaaaa, 0000b2, 0000zz, 00000f
DrawTable == <<10, 35, 361, 0, 621937810, 398, 1295, 15>>
Draws == {DrawTable[i] : i \in 1..Min(MaxDraws, Len(DrawTable))}

\* the values Math.floor(Math.random() * 0x1000000) is let to take:
\* 00000a, 000023, 000000, aaaaaa, 000169, 00018e, 00050f, 00000f
DrawTable16 == <<10, 35, 0, 11184810, 361, 398, 1295, 15>>
Draws16 == {DrawTable16[i] : i \in 1..Min(MaxDraws, Len(DrawTable16))}

hasLetter36(hexId) == \E i \in 1..Len(hexId) : hexId[i] \in Letter
hasLetter16(hexId) == \E i \in 1..Len(hexId) : hexId[i] \in HexLetter
hasDigit(hexId) == \E i \in 1..Len(hexId) : hexId[i] \in Digit

\* one candidate of the base-36 generator
candidate36(num) == padStart(toStringRadix(num, 36))
\* one candidate of the hexadecimal generator
candidate16(num) == padStart(toStringRadix(num, 16))

\* the loop condition without the test against the pool
loopAgain36NoPool(hexId, pool) == ~hasLetter36(hexId) \/ ~hasDigit(hexId)

\* the base-36 generator's loop condition: draw again?
loopAgain36(hexId, pool) ==
    hexId \in pool \/ ~hasLetter36(hexId) \/ ~hasDigit(hexId)

\* the hexadecimal generator's loop condition: `continue` in a do-while jumps
\* to the condition, so the validity test has no effect on it
loopAgain16(hexId, pool) == hexId \in pool

\* the identifiers a call of generateHexId can return with this pool
generateHexId(pool) == {candidate36(n) : n \in {m \in Draws : ~loopAgain36(candidate36(m), pool)}}
Legacy_generateHexId(pool) == {candidate16(n) : n \in {m \in Draws16 : ~loopAgain16(candidate16(m), pool)}}

\* n successive calls of generateHexId: the sequences of identifiers returned
RECURSIVE generateHexIds(_, _)
generateHexIds(pool, n) ==
    IF n = 0 THEN {<<>>}
    ELSE UNION {{<<h>> \o rest : rest \in generateHexIds(pool \cup {h}, n - 1)} :
                h \in generateHexId(pool)}

----------------------------------------------------------------------------
(* Marker scanner and grouping engine: extractCitations *)

HexPrefix == <<"h", "e", "x", "_">>

\* a footnote key left in the namespace of the numeric keys
hexKeyPlain(key) == key

\* `hex_${match[1]}`: the key of a footnote marker or definition
hexKey(key) == HexPrefix \o key

\* /\[(\d+)\](?!:)/ tried at 0-based offset i of line: the length matched, or 0
numericCitationAt(line, i) ==
    LET n == RunLen(line, i + 2, Digit)
    IN  IF /\ CharAt(line, i) = "["
           /\ n >= 1
           /\ CharAt(line, i + 1 + n) = "]"
           /\ CharAt(line, i + 2 + n) # ":"
        THEN n + 2 ELSE 0

\* /\[\^([a-f0-9]+)\](?!:)/ tried at 0-based offset i of line: the length matched, or 0
hexCitationAt(line, i) ==
    LET n == RunLen(line, i + 3, HexChar)
    IN  IF /\ CharAt(line, i) = "["
           /\ CharAt(line, i + 1) = "^"
           /\ n >= 1
           /\ CharAt(line, i + 2 + n) = "]"
           /\ CharAt(line, i + 3 + n) # ":"
        THEN n + 3 ELSE 0

\* the while ((match = pattern.exec(line)) !== null) loop of a global pattern:
\* the matches from lastIndex on, as [index, original, key]
RECURSIVE execAll(_, _, _)
execAll(line, lastIndex, hex) ==
    IF lastIndex >= Len(line) THEN <<>>
    ELSE LET n == IF hex THEN hexCitationAt(line, lastIndex)
                  ELSE numericCitationAt(line, lastIndex)
         IN  IF n = 0 THEN execAll(line, lastIndex + 1, hex)
             ELSE <<[index |-> lastIndex,
                     original |-> substring(line, lastIndex, lastIndex + n),
                     key |-> IF hex THEN substring(line, lastIndex + 2, lastIndex + n - 1)
                             ELSE substring(line, lastIndex + 1, lastIndex + n - 1)]>>
                  \o execAll(line, lastIndex + n, hex)

\* /^\s*\[\d+\]:/.test(line) || /^\s*\[\^[a-f0-9]+\]:/.test(line)
isDefinitionWithColon(line) ==
    LET ws == RunLen(line, 1, Space)
        n == RunLen(line, ws + 2, Digit)
        h == RunLen(line, ws + 3, HexChar)
    IN  \/ /\ CharAt(line, ws) = "["
           /\ n >= 1
           /\ CharAt(line, ws + 1 + n) = "]"
           /\ CharAt(line, ws + 2 + n) = ":"
        \/ /\ CharAt(line, ws) = "["
           /\ CharAt(line, ws + 1) = "^"
           /\ h >= 1
           /\ CharAt(line, ws + 2 + h) = "]"
           /\ CharAt(line, ws + 3 + h) = ":"

\* line.match(/^(\s*)\[(\d+)\]\s*:?\s*(.*)/) and, with hex, the same for
\* /^(\s*)\[\^([a-f0-9]+)\]\s*:?\s*(.*)/
refMatch(line, hex) ==
    LET ws == RunLen(line, 1, Space)
        keyAt == IF hex THEN ws + 2 ELSE ws + 1
        n == RunLen(line, keyAt + 1, IF hex THEN HexChar ELSE Digit)
        close == keyAt + n
        a == close + 1 + RunLen(line, close + 2, Space)
        b == IF CharAt(line, a) = ":" THEN a + 1 ELSE a
        c == b + RunLen(line, b + 1, Space)
    IN  [ok |-> /\ CharAt(line, ws) = "["
                /\ (hex => CharAt(line, ws + 1) = "^")
                /\ n >= 1
                /\ CharAt(line, close) = "]",
         all |-> line,
         leadingSpaces |-> substring(line, 0, ws),
         key |-> substring(line, keyAt, close),
         restOfLine |-> substringFrom(line, c)]

\* the matches one line contributes in the first loop (numeric, then hex)
RECURSIVE lineCitations(_, _, _, _)
lineCitations(content, line, i, found) ==
    IF Len(found) = 0 THEN <<>>
    ELSE LET m == found[1]
             lineIndex == indexOf(content, line)
             matchIndex == IF lineIndex >= 0 THEN lineIndex + m.index ELSE 0
             index == indexOfFrom(content, m.original, matchIndex)
             hex == m.original[2] = "^"
         IN  (IF index >= 0
              THEN <<[number |-> IF hex THEN hexKey(m.key) ELSE m.key,
                      original |-> m.original,
                      index |-> index,
                      lineContent |-> line,
                      lineNumber |-> i,
                      isReference |-> FALSE]>>
              ELSE <<>>)
             \o lineCitations(content, line, i, Tail(found))

\* the first loop over the lines: every citation match, in the order pushed
RECURSIVE citationMatches(_, _, _)
citationMatches(content, lines, i) ==
    IF i > Len(lines) THEN <<>>
    ELSE LET line == lines[i]
         IN  (IF Len(line) = 0 \/ isDefinitionWithColon(line) THEN <<>>
              ELSE lineCitations(content, line, i,
                                 execAll(line, 0, FALSE) \o execAll(line, 0, TRUE)))
             \o citationMatches(content, lines, i + 1)

\* position of the group of a number in the Map, or 0
groupOf(groups, number) ==
    LET at == {g \in 1..Len(groups) : groups[g].number = number}
    IN  IF at = {} THEN 0 ELSE CHOOSE g \in at : TRUE

\* every match put in a group of its own
pushMatchAlwaysNew(groups, match) ==
    Append(groups, [number |-> match.number, matches |-> <<match>>])

\* groups.get(number).matches.push(match), creating the group when new
pushMatch(groups, match) ==
    LET g == groupOf(groups, match.number)
    IN  IF g = 0 THEN Append(groups, [number |-> match.number, matches |-> <<match>>])
        ELSE [groups EXCEPT ![g].matches = Append(@, match)]

RECURSIVE groupMatches(_, _)
groupMatches(groups, matches) ==
    IF Len(matches) = 0 THEN groups
    ELSE groupMatches(pushMatch(groups, matches[1]), Tail(matches))

\* one reference-definition test of the second loop on one line
addDefinition(groups, content, line, i, hex) ==
    LET rm == refMatch(line, hex)
        number == IF hex THEN hexKey(rm.key) ELSE rm.key
    IN  IF rm.ok /\ groupOf(groups, number) # 0
        THEN pushMatch(groups, [number |-> number,
                                original |-> rm.all,
                                index |-> indexOf(content, line) + indexOf(line, rm.all),
                                lineContent |-> line,
                                lineNumber |-> i,
                                isReference |-> TRUE])
        ELSE groups

\* the second loop over the lines: the reference definitions of known groups
RECURSIVE referenceDefinitions(_, _, _, _)
referenceDefinitions(groups, content, lines, i) ==
    IF i > Len(lines) THEN groups
    ELSE LET line == lines[i]
         IN  IF Len(line) = 0 THEN referenceDefinitions(groups, content, lines, i + 1)
             ELSE referenceDefinitions(
                      addDefinition(addDefinition(groups, content, line, i, FALSE),
                                    content, line, i, TRUE),
                      content, lines, i + 1)

extractCitations(content) ==
    LET lines == split(content)
    IN  referenceDefinitions(groupMatches(<<>>, citationMatches(content, lines, 1)),
                             content, lines, 1)

----------------------------------------------------------------------------
(* Rewrite engine: convertAllCitations and convertCitation *)

\* `[^${hexId}]`
marker(hexId) == <<"[", "^">> \o hexId \o <<"]">>

\* `${before}[^${hexId}]${after}` with before and after cut at match.index
replaceAt(updatedContent, match, hexId) ==
    substring(updatedContent, 0, match.index)
        \o marker(hexId)
        \o substringFrom(updatedContent, match.index + Len(match.original))

\* group.number.startsWith('hex_')
startsWithHex(number) == Len(number) >= 4 /\ SubSeq(number, 1, 4) = HexPrefix

\* group.number.replace('hex_', '')
RECURSIVE replaceHexPrefix(_)
replaceHexPrefix(number) ==
    LET at == indexOf(number, HexPrefix)
    IN  IF at < 0 THEN number
        ELSE substring(number, 0, at) \o substringFrom(number, at + 4)

\* split, map, join of the reference-definition pass for one group
rewriteDefinitions(updatedContent, number, hexId) ==
    \* lines.map(...) of the reference-definition pass on one line
    LET rewriteDefinitionLine(line) ==
            LET hex == startsWithHex(number)
                rm == refMatch(line, hex)
                old == IF hex THEN replaceHexPrefix(number) ELSE number
            IN  IF rm.ok /\ rm.key = old
                THEN rm.leadingSpaces \o marker(hexId) \o <<":", " ">> \o rm.restOfLine
                ELSE line
    IN
    LET lines == split(updatedContent)
    IN  join([i \in 1..Len(lines) |-> rewriteDefinitionLine(lines[i])])

\* first pass, inner loop: the non-reference matches of one group, in group order
RECURSIVE replaceCitations(_, _, _)
replaceCitations(updatedContent, matches, hexId) ==
    IF Len(matches) = 0 THEN updatedContent
    ELSE replaceCitations(
             IF matches[1].isReference THEN updatedContent
             ELSE replaceAt(updatedContent, matches[1], hexId),
             Tail(matches), hexId)

\* first pass, outer loop over the groups
RECURSIVE firstPass(_, _, _, _)
firstPass(updatedContent, groups, hexIds, g) ==
    IF g > Len(groups) THEN updatedContent
    ELSE firstPass(replaceCitations(updatedContent, groups[g].matches, hexIds[g]),
                   groups, hexIds, g + 1)

\* second pass over the groups
RECURSIVE secondPass(_, _, _, _)
secondPass(updatedContent, groups, hexIds, g) ==
    IF g > Len(groups) THEN updatedContent
    ELSE secondPass(rewriteDefinitions(updatedContent, groups[g].number, hexIds[g]),
                    groups, hexIds, g + 1)

\* the number of matches with isReference false
RECURSIVE countCitations(_)
countCitations(matches) ==
    IF Len(matches) = 0 THEN 0
    ELSE (IF matches[1].isReference THEN 0 ELSE 1) + countCitations(Tail(matches))

RECURSIVE countAllCitations(_)
countAllCitations(groups) ==
    IF Len(groups) = 0 THEN 0
    ELSE countCitations(groups[1].matches) + countAllCitations(Tail(groups))

\* convertAllCitations(content): citationGroups is extractCitations(content)
\* and hexIds what generateHexId returns for the groups, in order
convertAllCitations(content, citationGroups, hexIds) ==
    LET citationsConverted == countAllCitations(citationGroups)
    IN  IF Len(citationGroups) = 0
        THEN [content |-> content, changed |-> FALSE, citationsConverted |-> 0]
        ELSE [content |-> secondPass(firstPass(content, citationGroups, hexIds, 1),
                                     citationGroups, hexIds, 1),
              changed |-> citationsConverted > 0,
              citationsConverted |-> citationsConverted]

\* [...matches].sort((a, b) => b.index - a.index): stable, descending
RECURSIVE insertSorted(_, _)
insertSorted(sorted, m) ==
    IF Len(sorted) = 0 THEN <<m>>
    ELSE IF sorted[1].index >= m.index THEN <<sorted[1]>> \o insertSorted(Tail(sorted), m)
    ELSE <<m>> \o sorted

RECURSIVE sortDescending(_, _)
sortDescending(sorted, matches) ==
    IF Len(matches) = 0 THEN sorted
    ELSE sortDescending(insertSorted(sorted, matches[1]), Tail(matches))

\* the loop of convertCitation over the sorted matches
RECURSIVE convertMatches(_, _, _, _)
convertMatches(updatedContent, sortedMatches, number, hexId) ==
    IF Len(sortedMatches) = 0 THEN updatedContent
    ELSE convertMatches(
             IF sortedMatches[1].isReference
             THEN rewriteDefinitions(updatedContent, number, hexId)
             ELSE replaceAt(updatedContent, sortedMatches[1], hexId),
             Tail(sortedMatches), number, hexId)

\* convertCitation(content, citationNumber): citationGroups is
\* extractCitations(content) and hexId what generateHexId returns
convertCitation(content, citationGroups, citationNumber, hexId) ==
    LET g == groupOf(citationGroups, citationNumber)
        sortedMatches == sortDescending(<<>>, citationGroups[g].matches)
    IN  IF g = 0
        THEN [content |-> content, changed |-> FALSE, citationsConverted |-> 0]
        ELSE [content |-> convertMatches(content, sortedMatches, citationNumber, hexId),
              changed |-> Len(sortedMatches) > 0,
              citationsConverted |-> Len(sortedMatches)]

----------------------------------------------------------------------------
(* The documents a session starts from *)

Pieces == << <<"[", "1", "]">>,
             <<"[", "2", "]">>,
             <<"[", "^", "1", "]">>,
             <<"[", "1", "]", ":">>,
             <<"[", "^", "1", "]", ":">>,
             <<" ", "T">> >>

RECURSIVE concat(_)
concat(ss) == IF Len(ss) = 0 THEN <<>> ELSE ss[1] \o concat(Tail(ss))

InitDocs ==
    LET InitLines ==
            UNION {{concat([i \in 1..n |-> Pieces[f[i]]]) : f \in [1..n -> 1..Len(Pieces)]} :
                   n \in 0..MaxLinePieces}
    IN
            UNION {{join(ls) : ls \in [1..n -> InitLines]} : n \in 1..MaxLines}

----------------------------------------------------------------------------
(* The editing session *)

NoResult == [op |-> "none", input |-> <<>>, number |-> <<>>, content |-> <<>>,
             changed |-> FALSE, citationsConverted |-> 0, hexIds |-> <<>>, pass |-> 0]

GenIdle == [pc |-> "idle", radix |-> 0, hexId |-> <<>>, attempts |-> 0]

\* no editor command is running: where the command stands, its selection,
\* the document it started from, its host mutation calls and its notice
CmdIdle == [pc |-> "idle", name |-> "none", from |-> 0, to |-> 0, url |-> <<>>,
            hexId |-> <<>>, existing |-> <<>>, before |-> <<>>, mutations |-> 0,
            response |-> "none", failed |-> FALSE, notice |-> "none"]

Init ==
    /\ doc \in InitDocs
    /\ usedHexIds = {}
    /\ issued = <<>>
    /\ res = NoResult
    /\ gen = GenIdle
    /\ ops = 0
    /\ cmd = CmdIdle

Range(f) == {f[i] : i \in DOMAIN f}

\* the Convert All Citations command
ConvertAllCommand ==
    /\ gen.pc = "idle"
    /\ ops < MaxOps
    /\ \E citationGroups \in {extractCitations(doc)} :
       \E hexIds \in generateHexIds(usedHexIds, Len(citationGroups)) :
       \E result \in {convertAllCitations(doc, citationGroups, hexIds)} :
          /\ res' = [op |-> "convertAll", input |-> doc, number |-> <<>>,
                     content |-> result.content, changed |-> result.changed,
                     citationsConverted |-> result.citationsConverted,
                     hexIds |-> hexIds, pass |-> 0]
          /\ doc' = IF result.changed THEN result.content ELSE doc
          /\ usedHexIds' = usedHexIds \cup Range(hexIds)
          /\ issued' = issued \o hexIds
    /\ ops' = ops + 1
    /\ UNCHANGED <<gen, cmd>>

\* the modal's button of one citation group: convertCitation, then saveChanges
ConvertCitationGroup ==
    /\ gen.pc = "idle"
    /\ ops < MaxOps
    /\ \E citationGroups \in {extractCitations(doc)} :
       \E g \in 1..Len(citationGroups) :
       \E hexId \in generateHexId(usedHexIds) :
       \E result \in {convertCitation(doc, citationGroups, citationGroups[g].number, hexId)} :
          /\ res' = [op |-> "convertOne", input |-> doc,
                     number |-> citationGroups[g].number,
                     content |-> result.content, changed |-> result.changed,
                     citationsConverted |-> result.citationsConverted,
                     hexIds |-> <<hexId>>, pass |-> 0]
          /\ doc' = IF result.changed THEN result.content ELSE doc
          /\ usedHexIds' = usedHexIds \cup {hexId}
          /\ issued' = Append(issued, hexId)
    /\ ops' = ops + 1
    /\ UNCHANGED <<gen, cmd>>

\* the Insert Hex Citation command, the cursor being at the end of the
\* document: a marker at the cursor, then a definition stub after the last line
InsertHexCitation ==
    /\ gen.pc = "idle"
    /\ ops < MaxOps
    /\ \E hexId \in generateHexId(usedHexIds) :
       \E cursor \in {Len(doc)} :
       \E content \in {substring(doc, 0, cursor) \o marker(hexId)
                           \o substringFrom(doc, cursor)} :
          /\ doc' = content \o <<NL, NL>> \o marker(hexId) \o <<":", " ">>
          /\ res' = [op |-> "insert", input |-> doc, number |-> <<>>,
                     content |-> doc', changed |-> TRUE, citationsConverted |-> 0,
                     hexIds |-> <<hexId>>, pass |-> 0]
          /\ usedHexIds' = usedHexIds \cup {hexId}
          /\ issued' = Append(issued, hexId)
    /\ ops' = ops + 1
    /\ UNCHANGED <<gen, cmd>>

Next == ConvertAllCommand \/ ConvertCitationGroup \/ InsertHexCitation

Spec == Init /\ [][Next]_vars

----------------------------------------------------------------------------
(* Sessions that start from a prose document: one or two body lines, then  *)
(* a reference definition line                                             *)

BodyLines == { <<"x", "[", "1", "]", ".">>,
               <<"y", "[", "1", "]">>,
               <<"y", "[", "2", "]">>,
               <<"z", "[", "^", "1", "]">> }

DefinitionLines == { <<"[", "1", "]", " ", "T">>,
                     <<"[", "1", "]", ":", " ", "T">>,
                     <<"[", "1", "]", ":", "T">>,
                     <<"[", "^", "1", "]", ":", " ", "T">>,
                     <<"[", "2", "]", ":", " ", "T">> }

\* the body and the definitions are one line apart or a blank line apart
Separators == { <<NL>>, <<NL, NL>> }

ScenarioDocs ==
    {join(body) \o sep \o def :
        body \in UNION {[1..n -> BodyLines] : n \in 1..MaxLines},
        sep \in Separators, def \in DefinitionLines}

InitScenario ==
    /\ doc \in ScenarioDocs
    /\ usedHexIds = {}
    /\ issued = <<>>
    /\ res = NoResult
    /\ gen = GenIdle
    /\ ops = 0
    /\ cmd = CmdIdle

SpecScenario == InitScenario /\ [][Next]_vars

----------------------------------------------------------------------------
(* Punctuation normalizer *)

White == Space \cup {NL}

\* content.replace(/\](\s*)\[/g, '] $1[')
RECURSIVE assureSpacingFrom(_, _)
assureSpacingFrom(content, i) ==
    IF i >= Len(content) THEN <<>>
    ELSE LET n == RunLen(content, i + 2, White)
         IN  IF content[i + 1] = "]" /\ CharAt(content, i + 1 + n) = "["
             THEN <<"]", " ">> \o substring(content, i + 1, i + 1 + n) \o <<"[">>
                      \o assureSpacingFrom(content, i + 2 + n)
             ELSE <<content[i + 1]>> \o assureSpacingFrom(content, i + 1)

assureSpacingBetweenCitations(content) == assureSpacingFrom(content, 0)

\* the spacing pass applied to the document, and again to its result
AssureSpacing ==
    /\ res.op \in {"none", "spacing"}
    /\ res.pass < MaxPasses
    /\ \E processed \in {assureSpacingBetweenCitations(doc)} :
          /\ doc' = processed
          /\ res' = [NoResult EXCEPT !.op = "spacing", !.input = doc,
                                     !.content = processed,
                                     !.changed = (processed # doc),
                                     !.pass = res.pass + 1]
    /\ UNCHANGED <<usedHexIds, issued, gen, ops, cmd>>

SpecSpacing == Init /\ [][AssureSpacing]_vars

----------------------------------------------------------------------------
(* convertAllCitations run more than once over one and the same text, in   *)
(* one session or in a new one                                             *)

\* one run over the text; its output is kept in res, the text is given again
ConvertAllRun ==
    /\ res.pass < MaxPasses
    /\ \E citationGroups \in {extractCitations(doc)} :
       \E hexIds \in generateHexIds(usedHexIds, Len(citationGroups)) :
       \E result \in {convertAllCitations(doc, citationGroups, hexIds)} :
          /\ res' = [op |-> "convertAll", input |-> doc, number |-> <<>>,
                     content |-> result.content, changed |-> result.changed,
                     citationsConverted |-> result.citationsConverted,
                     hexIds |-> hexIds, pass |-> res.pass + 1]
          /\ usedHexIds' = usedHexIds \cup Range(hexIds)
          /\ issued' = issued \o hexIds
    /\ UNCHANGED <<doc, gen, ops, cmd>>

\* the plugin is loaded anew: the module's CitationService is constructed again
NewSession ==
    /\ usedHexIds # {}
    /\ usedHexIds' = {}
    /\ UNCHANGED <<doc, issued, res, gen, ops, cmd>>

SpecRuns == InitScenario /\ [][ConvertAllRun \/ NewSession]_vars

----------------------------------------------------------------------------
(* moveCitationsBehindPunctuation *)

\* lines of the documents the pass is applied to
MaxSectionLines == 4

UpperCase == <<"A", "B", "C", "D", "E", "F", "G", "H", "I", "J", "K", "L", "M", "N", "O", "P", "Q", "R", "S", "T", "U", "V", "W", "X", "Y", "Z">>
LowerCase == <<"a", "b", "c", "d", "e", "f", "g", "h", "i", "j", "k", "l", "m", "n", "o", "p", "q", "r", "s", "t", "u", "v", "w", "x", "y", "z">>

\* line.trim()
RECURSIVE trimEnd(_)
trimEnd(s) ==
    IF Len(s) > 0 /\ s[Len(s)] \in White THEN trimEnd(SubSeq(s, 1, Len(s) - 1)) ELSE s

trim(line) == trimEnd(substringFrom(line, RunLen(line, 1, White)))

\* /^#+\s*(References|Sources|Footnotes)\s*$/i.test(line.trim())
isReferencesHeading(line) ==
    \* the /i flag: letters compared without case
    LET toLowerCase(c) ==
            IF \E k \in 1..Len(UpperCase) : UpperCase[k] = c
            THEN LowerCase[CHOOSE k \in 1..Len(UpperCase) : UpperCase[k] = c]
            ELSE c
    IN
    LET ReservedLabels == {<<"r", "e", "f", "e", "r", "e", "n", "c", "e", "s">>, <<"s", "o", "u", "r", "c", "e", "s">>, <<"f", "o", "o", "t", "n", "o", "t", "e", "s">>}
    IN
    LET t == trim(line)
        h == RunLen(t, 1, {"#"})
        w == RunLen(t, h + 1, White)
        label == substringFrom(t, h + w)
    IN  /\ h >= 1
        /\ [k \in 1..Len(label) |-> toLowerCase(label[k])] \in ReservedLabels

\* the length of the bracketed text \[[^\]]+\] at offset i, or 0
RECURSIVE closingBracket(_, _)
closingBracket(line, j) ==
    IF j >= Len(line) THEN -1
    ELSE IF line[j + 1] = "]" THEN j ELSE closingBracket(line, j + 1)

bracketAt(line, i) ==
    IF CharAt(line, i) # "[" THEN 0
    ELSE LET j == closingBracket(line, i + 1)
         IN  IF j > i + 1 THEN j - i + 1 ELSE 0

\* the bracketed texts of the longest run (?:\[[^\]]+\])+ at offset i
RECURSIVE bracketRun(_, _)
bracketRun(line, i) ==
    LET n == bracketAt(line, i)
    IN  IF n = 0 THEN <<>>
        ELSE <<substring(line, i, i + n)>> \o bracketRun(line, i + n)

RECURSIVE runLength(_)
runLength(bracketed) ==
    IF Len(bracketed) = 0 THEN 0
    ELSE Len(bracketed[1]) + runLength(Tail(bracketed))

\* bracketed.join(' ')
RECURSIVE joinSpaced(_)
joinSpaced(bracketed) ==
    IF Len(bracketed) = 0 THEN <<>>
    ELSE IF Len(bracketed) = 1 THEN bracketed[1]
    ELSE bracketed[1] \o <<" ">> \o joinSpaced(Tail(bracketed))

\* /^\s*\[[^\]]+\]\s*:/.test(line)
isBracketDefinition(line) ==
    LET w == RunLen(line, 1, White)
        n == bracketAt(line, w)
    IN  /\ n > 0
        /\ CharAt(line, w + n + RunLen(line, w + n + 1, White)) = ":"

\* /^\*+\s*$/.test(line.trim())
isAsteriskLine(line) ==
    LET t == trim(line) IN Len(t) >= 1 /\ RunLen(t, 1, {"*"}) = Len(t)

\* /^#+/.test(line.trim())
isHeading(line) == CharAt(trim(line), 0) = "#"

\* processedLine.replace(/((?:\[[^\]]+\])+)([.,])/g, ...) with its callback
RECURSIVE movePunctuation(_, _)
movePunctuation(line, i) ==
    IF i >= Len(line) THEN <<>>
    ELSE LET bracketed == bracketRun(line, i)
             n == runLength(bracketed)
             punctuation == CharAt(line, i + n)
         IN  IF n > 0 /\ punctuation \in {".", ","}
             THEN <<punctuation, " ">> \o joinSpaced(bracketed)
                      \o movePunctuation(line, i + n + 1)
             ELSE <<line[i + 1]>> \o movePunctuation(line, i + 1)

\* the callback without the section flag: every line is processed
mapLineNoSkip(line, inReferencesSection) ==
    [line |-> movePunctuation(line, 0), inReferencesSection |-> FALSE]

\* the callback of lines.map: the processed line and the flag it leaves
mapLine(line, inReferencesSection) ==
    IF isReferencesHeading(line)
    THEN [line |-> line, inReferencesSection |-> TRUE]
    ELSE IF inReferencesSection /\ isBracketDefinition(line)
    THEN [line |-> line, inReferencesSection |-> TRUE]
    ELSE LET reset == /\ inReferencesSection
                      /\ Len(trim(line)) > 0
                      /\ ~isBracketDefinition(line)
                      /\ ~isAsteriskLine(line)
                      /\ isHeading(line)
             flag == inReferencesSection /\ ~reset
         IN  IF flag THEN [line |-> line, inReferencesSection |-> TRUE]
             ELSE [line |-> movePunctuation(line, 0), inReferencesSection |-> FALSE]

RECURSIVE mapLines(_, _)
mapLines(lines, inReferencesSection) ==
    IF Len(lines) = 0 THEN <<>>
    ELSE LET r == mapLine(lines[1], inReferencesSection)
         IN  <<r.line>> \o mapLines(Tail(lines), r.inReferencesSection)

moveCitationsBehindPunctuation(content) == join(mapLines(split(content), FALSE))

SectionDocs ==
    \* the lines of the documents the pass is applied to
    LET SectionLines == { <<"t", "[", "1", "]", ".">>,
                          <<"a", "[", "1", "]", "[", "2", "]", ",", "b">>,
                          <<"#", "S", "o", "u", "r", "c", "e", "s">>,
                          <<"#", " ", "f", "o", "o", "t", "n", "o", "t", "e", "s">>,
                          <<"#", "N">>,
                          <<"[", "1", "]", ":", " ", "T", ".">>,
                          <<>> }
    IN
               UNION {{join(ls) : ls \in [1..n -> SectionLines]} : n \in 1..MaxSectionLines}

InitSections ==
    /\ doc \in SectionDocs
    /\ usedHexIds = {}
    /\ issued = <<>>
    /\ res = NoResult
    /\ gen = GenIdle
    /\ ops = 0
    /\ cmd = CmdIdle

\* the pass applied to the document, and again to its result
MoveCitations ==
    /\ res.op \in {"none", "move"}
    /\ res.pass < MaxPasses
    /\ \E processed \in {moveCitationsBehindPunctuation(doc)} :
          /\ doc' = processed
          /\ res' = [NoResult EXCEPT !.op = "move", !.input = doc,
                                     !.content = processed,
                                     !.changed = (processed # doc),
                                     !.pass = res.pass + 1]
    /\ UNCHANGED <<usedHexIds, issued, gen, ops, cmd>>

SpecSections == InitSections /\ [][MoveCitations]_vars

----------------------------------------------------------------------------
(* The revision of the service in citationFileService.ts: the definitions  *)
(* are collected and a references block is appended                        *)

\* /\[\d+\]/ tried at 0-based offset i: the length matched, or 0
bracketNumberAt(s, i) ==
    LET n == RunLen(s, i + 2, Digit)
    IN  IF CharAt(s, i) = "[" /\ n >= 1 /\ CharAt(s, i + 1 + n) = "]"
        THEN n + 2 ELSE 0

\* the offset of the end of the line that holds offset k
RECURSIVE endOfLine(_, _)
endOfLine(s, k) ==
    IF k >= Len(s) \/ s[k + 1] = NL THEN k ELSE endOfLine(s, k + 1)

\* content.replace(/\n\[\d+\]:.*$/gm, '')
RECURSIVE removeDefinitions(_, _)
removeDefinitions(content, i) ==
    IF i >= Len(content) THEN <<>>
    ELSE LET n == bracketNumberAt(content, i + 1)
         IN  IF content[i + 1] = NL /\ n > 0 /\ CharAt(content, i + 1 + n) = ":"
             THEN removeDefinitions(content, endOfLine(content, i + 1 + n))
             ELSE <<content[i + 1]>> \o removeDefinitions(content, i + 1)

\* .replace(/\[\d+\]/g, '')
RECURSIVE removeCitations(_, _)
removeCitations(content, i) ==
    IF i >= Len(content) THEN <<>>
    ELSE LET n == bracketNumberAt(content, i)
         IN  IF n > 0 THEN removeCitations(content, i + n)
             ELSE <<content[i + 1]>> \o removeCitations(content, i + 1)

\* .replace(/\n{3,}/g, '\n\n')
RECURSIVE collapseNewlines(_, _)
collapseNewlines(content, i) ==
    IF i >= Len(content) THEN <<>>
    ELSE LET n == RunLen(content, i + 1, {NL})
         IN  IF n >= 3 THEN <<NL, NL>> \o collapseNewlines(content, i + n)
             ELSE <<content[i + 1]>> \o collapseNewlines(content, i + 1)

\* the exec loop of referencePattern
\* /^\s*\[(\d+)\]:?\s*([\s\S]*?)(?=\n\s*\[\d+\]:|\n\s*$|$)/gm from lastIndex on:
\* the (number, value) pairs in the order they are set in referenceMap
RECURSIVE referenceEntries(_, _)
referenceEntries(content, lastIndex) ==
    \* the value kept for a match of referencePattern
    LET refValue(fullMatch) ==
            \* the text between the first and the second colon: split(':', 2)[1]
            LET afterFirstColon(s) ==
                    LET a == indexOf(s, <<":">>)
                        b == indexOfFrom(s, <<":">>, a + 1)
                    IN  IF b >= 0 THEN substring(s, a + 1, b) ELSE substringFrom(s, a + 1)
            IN
            IF indexOf(fullMatch, <<":">>) >= 0 THEN trim(afterFirstColon(fullMatch))
            ELSE LET w == RunLen(fullMatch, 1, White)
                     n == bracketNumberAt(fullMatch, w)
                     c == w + n + RunLen(fullMatch, w + n + 1, White)
                 IN  trim(IF n > 0 THEN substringFrom(fullMatch, c) ELSE fullMatch)
    IN
    IF lastIndex >= Len(content) THEN <<>>
    ELSE LET k == lastIndex + RunLen(content, lastIndex + 1, White)
             n == bracketNumberAt(content, k)
             b == IF CharAt(content, k + n) = ":" THEN k + n + 1 ELSE k + n
             c == b + RunLen(content, b + 1, White)
             q == endOfLine(content, c)
         IN  IF (lastIndex = 0 \/ content[lastIndex] = NL) /\ n > 0
             THEN <<[number |-> substring(content, k + 1, k + n - 1),
                     value |-> refValue(trim(substring(content, lastIndex, q)))]>>
                      \o referenceEntries(content, q)
             ELSE referenceEntries(content, lastIndex + 1)

\* referenceMap.get(number) || ''
RECURSIVE referenceMapGet(_, _)
referenceMapGet(entries, number) ==
    IF Len(entries) = 0 THEN <<>>
    ELSE IF entries[Len(entries)].number = number THEN entries[Len(entries)].value
    ELSE referenceMapGet(SubSeq(entries, 1, Len(entries) - 1), number)

\* the matches of citationPattern in the lines that are not skipped
RECURSIVE FileService_citationMatches(_, _, _)
FileService_citationMatches(content, lines, i) ==
    \* /^\s*\[\d+\]:/.test(line)
    LET isNumericDefinitionWithColon(line) ==
            LET ws == RunLen(line, 1, White)
                n == bracketNumberAt(line, ws)
            IN  n > 0 /\ CharAt(line, ws + n) = ":"
    IN
    IF i > Len(lines) THEN <<>>
    ELSE LET line == lines[i]
             found == IF Len(line) = 0 \/ isNumericDefinitionWithColon(line) THEN <<>>
                      ELSE execAll(line, 0, FALSE)
         IN  lineCitations(content, line, i, found)
             \o FileService_citationMatches(content, lines, i + 1)

\* the groups with their referenceText (the isReference marks are not read by
\* this revision's convertAllCitations)
FileService_extractCitations(content) ==
    LET entries == referenceEntries(content, 0)
        groups == groupMatches(<<>>, FileService_citationMatches(content, split(content), 1))
    IN  [g \in 1..Len(groups) |->
            [number |-> groups[g].number,
             matches |-> groups[g].matches,
             referenceText |-> referenceMapGet(entries, groups[g].number)]]

\* the ids of n successive calls of the hexadecimal generateHexId
RECURSIVE Legacy_generateHexIds(_, _)
Legacy_generateHexIds(pool, n) ==
    IF n = 0 THEN {<<>>}
    ELSE UNION {{<<hexId>> \o rest : rest \in Legacy_generateHexIds(pool \cup {hexId}, n - 1)} :
                hexId \in Legacy_generateHexId(pool)}

\* first pass: every match of every group replaced at its offset
RECURSIVE FileService_replaceMatches(_, _, _)
FileService_replaceMatches(updatedContent, matches, hexId) ==
    IF Len(matches) = 0 THEN updatedContent
    ELSE LET match == matches[1]
             needsColon == match.original[Len(match.original)] = ":"
         IN  FileService_replaceMatches(
                 substring(updatedContent, 0, match.index) \o marker(hexId)
                     \o (IF needsColon THEN <<":">> ELSE <<>>)
                     \o substringFrom(updatedContent, match.index + Len(match.original)),
                 Tail(matches), hexId)

RECURSIVE FileService_firstPass(_, _, _, _)
FileService_firstPass(updatedContent, groups, hexIds, g) ==
    IF g > Len(groups) THEN updatedContent
    ELSE FileService_firstPass(
             FileService_replaceMatches(updatedContent, groups[g].matches, hexIds[g]),
             groups, hexIds, g + 1)

\* second pass: the lines of the references block
RECURSIVE FileService_references(_, _, _)
FileService_references(groups, hexIds, g) ==
    IF g > Len(groups) THEN <<>>
    ELSE (IF Len(groups[g].referenceText) > 0
          THEN <<marker(hexIds[g]) \o <<":", " ">> \o trim(groups[g].referenceText)>>
          ELSE <<>>)
         \o FileService_references(groups, hexIds, g + 1)

\* references.join('\n\n')
RECURSIVE joinBlank(_)
joinBlank(references) ==
    IF Len(references) = 0 THEN <<>>
    ELSE IF Len(references) = 1 THEN references[1]
    ELSE references[1] \o <<NL, NL>> \o joinBlank(Tail(references))

RECURSIVE FileService_count(_, _)
FileService_count(groups, g) ==
    IF g > Len(groups) THEN 0
    ELSE Len(groups[g].matches) + FileService_count(groups, g + 1)

\* convertAllCitations of citationFileService.ts, given the groups of the
\* cleaned content and the ids drawn for them
FileService_convertAllCitations(content, cleaned, citationGroups, hexIds) ==
    IF Len(citationGroups) = 0
    THEN [content |-> content, changed |-> FALSE, citationsConverted |-> 0]
    ELSE LET replaced == FileService_firstPass(cleaned, citationGroups, hexIds, 1)
             references == FileService_references(citationGroups, hexIds, 1)
         IN  [content |-> IF Len(references) > 0
                          THEN replaced
                               \o <<NL, NL, "#", "#", " ", "R", "e", "f", "e", "r", "e", "n", "c", "e", "s", NL, NL>>
                               \o joinBlank(references)
                          ELSE replaced,
              changed |-> FileService_count(citationGroups, 1) > 0,
              citationsConverted |-> FileService_count(citationGroups, 1)]

\* the documents this revision is applied to: a prose document, or one with a
\* bracket pair around a marker
SynthesisDocs ==
    ScenarioDocs \cup
    {pre \o <<"[">> \o m \o <<"1", "]">> \o post :
        pre \in {<<>>, <<"x">>}, m \in {<<"[", "1", "]">>, <<"[", "2", "]">>},
        post \in {<<>>, <<".">>, <<NL, "[", "1", "]", ":", " ", "T">>}}

InitSynthesis ==
    /\ doc \in SynthesisDocs
    /\ usedHexIds = {}
    /\ issued = <<>>
    /\ res = NoResult
    /\ gen = GenIdle
    /\ ops = 0
    /\ cmd = CmdIdle

\* convertAllCitations of this revision applied to the document
SynthesizeReferences ==
    LET cleanedContent(content) ==
            collapseNewlines(removeCitations(removeDefinitions(content, 0), 0), 0)
    IN
    /\ res.pass < MaxPasses
    /\ \E cleaned \in {cleanedContent(doc)} :
       \E citationGroups \in {FileService_extractCitations(cleaned)} :
       \E hexIds \in Legacy_generateHexIds(usedHexIds, Len(citationGroups)) :
       \E result \in {FileService_convertAllCitations(doc, cleaned, citationGroups, hexIds)} :
          /\ res' = [op |-> "synthesize", input |-> doc, number |-> <<>>,
                     content |-> result.content, changed |-> result.changed,
                     citationsConverted |-> result.citationsConverted,
                     hexIds |-> hexIds, pass |-> res.pass + 1]
          /\ doc' = IF result.changed THEN result.content ELSE doc
          /\ usedHexIds' = usedHexIds \cup Range(hexIds)
          /\ issued' = issued \o hexIds
    /\ UNCHANGED <<gen, ops, cmd>>

SpecSynthesis == InitSynthesis /\ [][SynthesizeReferences]_vars

----------------------------------------------------------------------------
(* The legacy revision in citationService.ts: numeric markers only, the    *)
(* occurrence with the largest offset of a number is its reference         *)

\* the exec loop of /\[(\d+)\]/g over one line
RECURSIVE Legacy_execAll(_, _)
Legacy_execAll(line, lastIndex) ==
    IF lastIndex >= Len(line) THEN <<>>
    ELSE LET n == bracketNumberAt(line, lastIndex)
         IN  IF n = 0 THEN Legacy_execAll(line, lastIndex + 1)
             ELSE <<[index |-> lastIndex,
                     original |-> substring(line, lastIndex, lastIndex + n),
                     key |-> substring(line, lastIndex + 1, lastIndex + n - 1)]>>
                  \o Legacy_execAll(line, lastIndex + n)

RECURSIVE Legacy_citationMatches(_, _, _)
Legacy_citationMatches(content, lines, i) ==
    IF i > Len(lines) THEN <<>>
    ELSE LET line == lines[i]
             found == Legacy_execAll(line, 0)
         IN  [j \in 1..Len(found) |->
                 [number |-> found[j].key,
                  original |-> found[j].original,
                  index |-> indexOfFrom(content, found[j].original,
                                        indexOf(content, line) + found[j].index),
                  lineContent |-> line,
                  lineNumber |-> i,
                  isReference |-> FALSE]]
             \o Legacy_citationMatches(content, lines, i + 1)

Legacy_extractCitations(content) ==
    \* one group with its reference marked and its referenceText extracted;
    \* lastOccurrences.get(number).index is the largest offset of the number
    LET Legacy_markReference(group, matches) ==
            LET of == {matches[j].index :
                          j \in {k \in 1..Len(matches) : matches[k].number = group.number}}
                last == CHOOSE x \in of : \A y \in of : y <= x
                m == CHOOSE j \in 1..Len(group.matches) :
                         /\ group.matches[j].index = last
                         /\ \A k \in 1..(j - 1) : group.matches[k].index # last
                lineContent == group.matches[m].lineContent
                citationPos == indexOf(lineContent, <<"[">> \o group.number \o <<"]">>)
            IN  [number |-> group.number,
                 matches |-> [group.matches EXCEPT ![m].isReference = TRUE],
                 referenceText |-> IF citationPos # -1
                                   THEN trim(substringFrom(lineContent,
                                                           citationPos + Len(group.number) + 2))
                                   ELSE <<>>]
    IN
    LET matches == Legacy_citationMatches(content, split(content), 1)
        groups == groupMatches(<<>>, matches)
    IN  [g \in 1..Len(groups) |-> Legacy_markReference(groups[g], matches)]

\* the loop over sortedMatches of one group
RECURSIVE Legacy_convertMatches(_, _, _, _)
Legacy_convertMatches(updatedContent, sortedMatches, referenceText, hexId) ==
    IF Len(sortedMatches) = 0 THEN updatedContent
    ELSE LET match == sortedMatches[1]
             before == substring(updatedContent, 0, match.index)
             after == substringFrom(updatedContent, match.index + Len(match.original))
         IN  Legacy_convertMatches(
                 IF match.isReference /\ Len(referenceText) > 0
                 THEN before \o marker(hexId) \o <<":", " ">> \o referenceText \o after
                 ELSE before \o marker(hexId) \o after,
                 Tail(sortedMatches), referenceText, hexId)

RECURSIVE Legacy_convertGroups(_, _, _, _)
Legacy_convertGroups(updatedContent, groups, hexIds, g) ==
    IF g > Len(groups) THEN updatedContent
    ELSE Legacy_convertGroups(
             Legacy_convertMatches(updatedContent, sortDescending(<<>>, groups[g].matches),
                                   groups[g].referenceText, hexIds[g]),
             groups, hexIds, g + 1)

Legacy_convertAllCitations(content, citationGroups, hexIds) ==
    IF Len(citationGroups) = 0
    THEN [content |-> content, changed |-> FALSE, citationsConverted |-> 0]
    ELSE [content |-> Legacy_convertGroups(content, citationGroups, hexIds, 1),
          changed |-> FileService_count(citationGroups, 1) > 0,
          citationsConverted |-> FileService_count(citationGroups, 1)]

Legacy_convertCitation(content, citationGroups, citationNumber, hexId) ==
    LET g == groupOf(citationGroups, citationNumber)
    IN  IF g = 0
        THEN [content |-> content, changed |-> FALSE, citationsConverted |-> 0]
        ELSE [content |-> Legacy_convertMatches(content,
                              sortDescending(<<>>, citationGroups[g].matches),
                              citationGroups[g].referenceText, hexId),
              changed |-> Len(citationGroups[g].matches) > 0,
              citationsConverted |-> Len(citationGroups[g].matches)]

\* convertAllCitations of the legacy revision applied to the document
Legacy_ConvertAll ==
    /\ ops < MaxOps
    /\ \E citationGroups \in {Legacy_extractCitations(doc)} :
       \E hexIds \in Legacy_generateHexIds(usedHexIds, Len(citationGroups)) :
       \E result \in {Legacy_convertAllCitations(doc, citationGroups, hexIds)} :
          /\ res' = [op |-> "legacyAll", input |-> doc, number |-> <<>>,
                     content |-> result.content, changed |-> result.changed,
                     citationsConverted |-> result.citationsConverted,
                     hexIds |-> hexIds, pass |-> 0]
          /\ doc' = IF result.changed THEN result.content ELSE doc
          /\ usedHexIds' = usedHexIds \cup Range(hexIds)
          /\ issued' = issued \o hexIds
    /\ ops' = ops + 1
    /\ UNCHANGED <<gen, cmd>>

\* convertCitation of the legacy revision applied to one group of the document
Legacy_ConvertOne ==
    /\ ops < MaxOps
    /\ \E citationGroups \in {Legacy_extractCitations(doc)} :
       \E g \in 1..Len(citationGroups) :
       \E hexId \in Legacy_generateHexId(usedHexIds) :
       \E result \in {Legacy_convertCitation(doc, citationGroups,
                                             citationGroups[g].number, hexId)} :
          /\ res' = [op |-> "legacyOne", input |-> doc,
                     number |-> citationGroups[g].number,
                     content |-> result.content, changed |-> result.changed,
                     citationsConverted |-> result.citationsConverted,
                     hexIds |-> <<hexId>>, pass |-> 0]
          /\ doc' = IF result.changed THEN result.content ELSE doc
          /\ usedHexIds' = usedHexIds \cup {hexId}
          /\ issued' = Append(issued, hexId)
    /\ ops' = ops + 1
    /\ UNCHANGED <<gen, cmd>>

SpecLegacy == InitScenario /\ [][Legacy_ConvertAll \/ Legacy_ConvertOne]_vars

----------------------------------------------------------------------------
(* The editor commands of main.ts, one action per stretch of code between  *)
(* two awaits, and the URL metadata service of urlCitationService.ts       *)

UnknownTitle == <<"U", "n", "k", "n", "o", "w", "n", " ", "T", "i", "t", "l", "e">>
UnknownSite == <<"U", "n", "k", "n", "o", "w", "n", " ", "S", "i", "t", "e">>

\* length of the longest run that starts at 0-based i of characters outside excluded
RECURSIVE runOutside(_, _, _)
runOutside(s, i, excluded) ==
    IF i < Len(s) /\ s[i + 1] \notin excluded THEN 1 + runOutside(s, i + 1, excluded) ELSE 0

\* length of the match of /https?:\/\/[^\s]+/ (or [^)\s]+) anchored at i, 0 if none
urlAt(s, i, excluded) ==
    LET scheme == IF OccursAt(s, <<"h", "t", "t", "p", ":", "/", "/">>, i) THEN 7
                  ELSE IF OccursAt(s, <<"h", "t", "t", "p", "s", ":", "/", "/">>, i) THEN 8
                  ELSE 0
        rest == runOutside(s, i + scheme, excluded)
    IN  IF scheme > 0 /\ rest > 0 THEN scheme + rest ELSE 0

\* selection.match(/https?:\/\/[^\s]+/): the first match, or the empty text
RECURSIVE urlMatch(_, _)
urlMatch(selection, i) ==
    IF i >= Len(selection) THEN <<>>
    ELSE IF urlAt(selection, i, White) > 0
         THEN substring(selection, i, i + urlAt(selection, i, White))
         ELSE urlMatch(selection, i + 1)

\* /"?\[\^([a-zA-Z0-9]+)\]:\s*(https?:\/\/[^\s]+)"?/: the first match from offset i on
RECURSIVE citationWithUrlFrom(_, _, _)
citationWithUrlFrom(s, i, excluded) ==
    LET id == RunLen(s, i + 3, Digit \cup Letter \cup {UpperCase[k] : k \in 1..Len(UpperCase)})
        colon == i + 2 + id
        ws == RunLen(s, colon + 3, White)
        u == urlAt(s, colon + 2 + ws, excluded)
    IN  IF i >= Len(s) THEN [ok |-> FALSE, hexId |-> <<>>, url |-> <<>>]
        ELSE IF OccursAt(s, <<"[", "^">>, i) /\ id > 0
                  /\ OccursAt(s, <<"]", ":">>, colon) /\ u > 0
        THEN [ok |-> TRUE, hexId |-> substring(s, i + 2, i + 2 + id),
              url |-> substring(s, colon + 2 + ws, colon + 2 + ws + u)]
        ELSE citationWithUrlFrom(s, i + 1, excluded)

\* cleanSelection.match(citationWithUrlRegex), then the match of flexibleRegex2
citationMatch(cleanSelection) ==
    IF citationWithUrlFrom(cleanSelection, 0, White).ok
    THEN citationWithUrlFrom(cleanSelection, 0, White)
    ELSE citationWithUrlFrom(cleanSelection, 0, White \cup {")"})

\* new URL(url).hostname for the URLs of the documents: no user, no port
hostname(url) ==
    LET start == indexOf(url, <<":", "/", "/">>) + 3
    IN  substring(url, start, start + runOutside(url, start, {"/", "?", "#"}))

\* isValidUrl: new URL(url) does not throw; the host is not empty and holds
\* none of the code points that new URL() refuses in a host
isValidUrl(url) ==
    /\ urlAt(url, 0, {}) = Len(url)
    /\ Len(hostname(url)) > 0
    /\ \A k \in 1..Len(hostname(url)) :
           hostname(url)[k] \notin {" ", "#", "/", ":", "<", ">", "?", "@", "[", "\\",
                                    "]", "^", "|", "%"}

\* .split('-').map(word => word.charAt(0).toUpperCase() + word.slice(1)).join(' ')
RECURSIVE titleCase(_, _)
titleCase(domain, wordStart) ==
    IF Len(domain) = 0 THEN <<>>
    ELSE IF domain[1] = "-" THEN <<" ">> \o titleCase(Tail(domain), TRUE)
    ELSE <<IF wordStart /\ \E k \in 1..Len(LowerCase) : LowerCase[k] = domain[1]
           THEN UpperCase[CHOOSE k \in 1..Len(LowerCase) : LowerCase[k] = domain[1]]
           ELSE domain[1]>>
             \o titleCase(Tail(domain), FALSE)

extractSiteNameFromUrl(url) ==
    IF ~isValidUrl(url) THEN UnknownSite
    ELSE LET host == hostname(url)
             domain == IF OccursAt(host, <<"w", "w", "w", ".">>, 0)
                       THEN substringFrom(host, 4) ELSE host
         IN  titleCase(substring(domain, 0, runOutside(domain, 0, {"."})), TRUE)

\* a || b for strings: the empty string is falsy
orElse(a, b) == IF Len(a) > 0 THEN a ELSE b

\* parseReaderResponse: the fields it reads from the body, a body of null
\* taking the catch branch; bodies without a published time
parseReaderResponse(data, originalUrl) ==
    IF data.isNull
    THEN [title |-> UnknownTitle, author |-> <<>>, url |-> originalUrl,
          siteName |-> extractSiteNameFromUrl(originalUrl)]
    ELSE [title |-> orElse(data.title, UnknownTitle),
          author |-> data.author,
          url |-> originalUrl,
          siteName |-> orElse(data.siteName,
                              orElse(extractSiteNameFromUrl(originalUrl), UnknownSite))]

\* formatCitation: `[^${hexId}]: ${parts.join('. ')}.`, data.date being absent
formatCitation(data, hexId) ==
    \* `${urlObj.protocol}//${urlObj.hostname}`
    LET getSiteUrl(url) ==
            IF ~isValidUrl(url) THEN url
            ELSE substring(url, 0, indexOf(url, <<":", "/", "/">>) + 3) \o hostname(url)
    IN
    LET title == orElse(data.title, UnknownTitle)
        siteName == orElse(data.siteName, extractSiteNameFromUrl(data.url))
        link == <<"\"", "[">> \o title \o <<" ", "|", " ">> \o siteName
                    \o <<"]", "(">> \o data.url \o <<")", "\"">>
        site == <<"[">> \o data.siteName \o <<"]", "(">>
                    \o orElse(getSiteUrl(data.url), data.url) \o <<")">>
        joined == link
                  \o (IF Len(data.author) > 0 THEN <<".", " ">> \o data.author ELSE <<>>)
                  \o (IF Len(data.siteName) > 0 THEN <<".", " ">> \o site ELSE <<>>)
    IN  marker(hexId) \o <<":", " ">> \o joined \o <<".">>

\* Math.random().toString(16).substring(2, 2 + length): the digits of the
\* fraction num / 16^6, which toString writes without trailing zeros
RECURSIVE fractionDigits(_)
fractionDigits(digits) ==
    IF Len(digits) > 0 /\ digits[Len(digits)] = "0"
    THEN fractionDigits(SubSeq(digits, 1, Len(digits) - 1)) ELSE digits

UrlService_generateHexId == {fractionDigits(candidate16(num)) : num \in Draws16}

NoData == [isNull |-> FALSE, title |-> <<>>, author |-> <<>>, siteName |-> <<>>]

extractCitationFromUrl(url, response, hexId) ==
    IF ~isValidUrl(url)
    THEN [success |-> FALSE, citation |-> <<>>, hexId |-> <<>>, error |-> "Invalid URL provided"]
    ELSE IF response.kind # "json"
    THEN [success |-> FALSE, citation |-> <<>>, hexId |-> <<>>, error |-> response.kind]
    ELSE [success |-> TRUE,
          citation |-> formatCitation(parseReaderResponse(response.data, url), hexId),
          hexId |-> hexId, error |-> "none"]

\* editor.replaceSelection(text) / editor.replaceRange(text, from, to)
replaceRange(content, text, from, to) ==
    substring(content, 0, from) \o text \o substringFrom(content, to)

\* content.replace(new RegExp(`\\[\\^${oldHexId}\\]`, 'g'), `[^${newHexId}]`)
RECURSIVE replaceAllFrom(_, _, _, _)
replaceAllFrom(content, i, pattern, replacement) ==
    IF i >= Len(content) THEN <<>>
    ELSE IF OccursAt(content, pattern, i)
         THEN replacement \o replaceAllFrom(content, i + Len(pattern), pattern, replacement)
         ELSE <<content[i + 1]>> \o replaceAllFrom(content, i + 1, pattern, replacement)

\* the citation file of the same URL that findCitationByUrl can find, and the
\* text getCitationText assembles from it
ExistingCitationText(hexId, url) ==
    marker(hexId) \o <<":", " ", "\"">> \o url \o <<"\"", ".">>

\* the offsets a selection can start and end at: the ends of the words
SelectionPoints(content) ==
    {0, Len(content)} \cup {i \in 1..(Len(content) - 1) :
                               content[i] \in White \/ content[i + 1] \in White}

InitCommands ==
    LET CommandDocs == {<<"s", "e", "e", " ", "h", "t", "t", "p", ":", "/", "/", "a">>, <<"s", "e", "e", " ", "h", "t", "t", "p", ":", "/", "/", "[">>, <<"x", "[", "^", "0", "0", "0", "0", "a", "1", "]", NL, "[", "^", "0", "0", "0", "0", "a", "1", "]", ":", " ", "h", "t", "t", "p", ":", "/", "/", "a">>}
    IN
    /\ doc \in CommandDocs
    /\ usedHexIds = {}
    /\ issued = <<>>
    /\ res = NoResult
    /\ gen = GenIdle
    /\ ops = 0
    /\ cmd = CmdIdle

Finish(notice, failed) == [cmd EXCEPT !.pc = "done", !.notice = notice, !.failed = failed]

\* Extract Citation from URL, up to the await of findCitationByUrl
UrlCommand ==
    /\ cmd.pc = "idle"
    /\ ops < MaxOps
    /\ ops' = ops + 1
    /\ \E from \in SelectionPoints(doc) : \E to \in SelectionPoints(doc) :
       \E selection \in {substring(doc, from, to)} :
       \E started \in {[CmdIdle EXCEPT !.name = "url", !.from = from, !.to = to,
                                       !.before = doc]} :
          /\ from <= to
          /\ IF Len(selection) = 0
             THEN /\ cmd' = [started EXCEPT !.pc = "done",
                                            !.notice = "Please select a URL first"]
                  /\ UNCHANGED <<usedHexIds, issued>>
             ELSE IF citationMatch(trim(selection)).ok
             THEN /\ cmd' = [started EXCEPT !.pc = "findCitationByUrl",
                                            !.hexId = citationMatch(trim(selection)).hexId,
                                            !.url = citationMatch(trim(selection)).url]
                  /\ UNCHANGED <<usedHexIds, issued>>
             ELSE IF Len(urlMatch(selection, 0)) = 0
             THEN /\ cmd' = [started EXCEPT !.pc = "done", !.notice = "not a valid URL"]
                  /\ UNCHANGED <<usedHexIds, issued>>
             ELSE \E hexId \in generateHexId(usedHexIds) :
                  /\ cmd' = [started EXCEPT !.pc = "findCitationByUrl", !.hexId = hexId,
                                            !.url = urlMatch(selection, 0)]
                  /\ usedHexIds' = usedHexIds \cup {hexId}
                  /\ issued' = Append(issued, hexId)
    /\ UNCHANGED <<doc, res, gen>>

\* await citationFileService.findCitationByUrl(url): no file, a file of the
\* same URL, or a vault error caught by the command's try block
UrlFindCitation ==
    /\ cmd.pc = "findCitationByUrl"
    /\ \E outcome \in {"none", "found", "error"} :
          cmd' = CASE outcome = "none" -> [cmd EXCEPT !.pc = "extract"]
                   [] outcome = "found" -> [cmd EXCEPT !.pc = "modal",
                                                       !.existing = <<"0", "0", "0", "0", "b", "2">>]
                   [] OTHER -> Finish("Error extracting citation", TRUE)
    /\ UNCHANGED <<doc, usedHexIds, issued, res, gen, ops>>

\* the answer given in ConfirmDuplicateCitationModal
UrlModal ==
    /\ cmd.pc = "modal"
    /\ \E useExisting \in BOOLEAN :
          cmd' = [cmd EXCEPT !.pc = IF useExisting THEN "getCitationText" ELSE "extract"]
    /\ UNCHANGED <<doc, usedHexIds, issued, res, gen, ops>>

\* after await getCitationText: the selection is replaced, then every marker
\* of the old identifier is rewritten with setValue
UrlUseExisting ==
    /\ cmd.pc = "getCitationText"
    /\ \E citationText \in {<<>>, ExistingCitationText(cmd.existing, cmd.url)} :
          IF Len(citationText) > 0
          THEN \E content \in {replaceRange(doc, citationText, cmd.from, cmd.to)} :
                  /\ doc' = replaceAllFrom(content, 0, marker(cmd.hexId), marker(cmd.existing))
                  /\ cmd' = [cmd EXCEPT !.pc = "deleteOldFile", !.mutations = @ + 2]
          ELSE /\ doc' = replaceRange(doc, marker(cmd.existing), cmd.from, cmd.to)
               /\ cmd' = [Finish("Used existing citation", FALSE) EXCEPT !.mutations = @ + 1]
    /\ UNCHANGED <<usedHexIds, issued, res, gen, ops>>

\* await this.app.vault.delete(oldFile), when the old citation file exists
UrlDeleteOldFile ==
    /\ cmd.pc = "deleteOldFile"
    /\ \E outcome \in {"absent", "deleted", "error"} :
          cmd' = IF outcome = "error" THEN Finish("none", TRUE)
                 ELSE [cmd EXCEPT !.pc = "updateCitationUsage"]
    /\ UNCHANGED <<doc, usedHexIds, issued, res, gen, ops>>

\* await citationFileService.updateCitationUsage(existingFile, sourceFile)
UrlUpdateUsage ==
    /\ cmd.pc = "updateCitationUsage"
    /\ \E outcome \in {"updated", "error"} :
          cmd' = IF outcome = "error" THEN Finish("none", TRUE)
                 ELSE Finish("Used existing citation", FALSE)
    /\ UNCHANGED <<doc, usedHexIds, issued, res, gen, ops>>

\* extractAndInsertCitation up to the await of createCitationFile
UrlExtract ==
    \* what the Reader API call can come to: fetch rejects, a status that is not
    \* ok, a body that is not JSON, or a JSON body
    LET Responses ==
            {[kind |-> k, data |-> NoData] : k \in {"networkError", "notOk", "badJson"}}
            \cup {[kind |-> "json", data |-> d] :
                     d \in {[NoData EXCEPT !.isNull = TRUE],
                            NoData,
                            [NoData EXCEPT !.title = <<"T">>, !.siteName = <<"S">>],
                            [NoData EXCEPT !.title = <<"T">>, !.author = <<"B">>]}}
    IN
    /\ cmd.pc = "extract"
    /\ \E response \in IF isValidUrl(cmd.url) THEN Responses
                       ELSE {[kind |-> "notFetched", data |-> NoData]} :
       \E hexId \in UrlService_generateHexId :
       \E result \in {extractCitationFromUrl(cmd.url, response, hexId)} :
          IF ~result.success
          THEN /\ cmd' = [Finish(result.error, FALSE) EXCEPT
                              !.response = (IF response.kind = "json" /\ response.data.isNull THEN "null" ELSE response.kind)]
               /\ UNCHANGED doc
          ELSE IF Len(result.citation) = 0 \/ Len(result.hexId) = 0
          THEN /\ cmd' = [Finish("Failed to extract citation data", FALSE) EXCEPT
                              !.response = (IF response.kind = "json" /\ response.data.isNull THEN "null" ELSE response.kind)]
               /\ UNCHANGED doc
          ELSE /\ doc' = replaceRange(doc, result.citation, cmd.from, cmd.to)
               /\ cmd' = [cmd EXCEPT !.pc = "createCitationFile", !.hexId = result.hexId,
                                     !.response = (IF response.kind = "json" /\ response.data.isNull THEN "null" ELSE response.kind),
                                     !.mutations = @ + 1]
    /\ UNCHANGED <<usedHexIds, issued, res, gen, ops>>

\* await createCitationFile: it returns the file, or null after its own notice
UrlCreateFile ==
    /\ cmd.pc = "createCitationFile"
    /\ cmd.name = "url"
    /\ \E created \in BOOLEAN :
          cmd' = Finish("Citation extracted successfully", ~created)
    /\ UNCHANGED <<doc, usedHexIds, issued, res, gen, ops>>

\* Insert Hex Citation up to the await of createCitationFile: a marker at the
\* cursor, then the definition stub behind the last line
InsertCommand ==
    /\ cmd.pc = "idle"
    /\ ops < MaxOps
    /\ ops' = ops + 1
    /\ \E cursor \in SelectionPoints(doc) :
       \E hexId \in generateHexId(usedHexIds) :
       \E content \in {replaceRange(doc, marker(hexId), cursor, cursor)} :
          /\ doc' = replaceRange(content, <<NL, NL>> \o marker(hexId) \o <<":", " ">>,
                                 Len(content), Len(content))
          /\ cmd' = [CmdIdle EXCEPT !.name = "insert", !.pc = "createCitationFile",
                                    !.from = cursor, !.to = cursor, !.hexId = hexId,
                                    !.before = doc, !.mutations = 2]
          /\ usedHexIds' = usedHexIds \cup {hexId}
          /\ issued' = Append(issued, hexId)
    /\ UNCHANGED <<res, gen>>

\* the rest of Insert Hex Citation: the file is created or not, the cursor is set
InsertCreateFile ==
    /\ cmd.pc = "createCitationFile"
    /\ cmd.name = "insert"
    /\ \E created \in BOOLEAN : cmd' = Finish("none", ~created)
    /\ UNCHANGED <<doc, usedHexIds, issued, res, gen, ops>>

\* Convert All Citations to Hex Format, which has no await
ConvertAllInvocation ==
    /\ cmd.pc = "idle"
    /\ ops < MaxOps
    /\ ops' = ops + 1
    /\ \E citationGroups \in {extractCitations(doc)} :
       \E hexIds \in generateHexIds(usedHexIds, Len(citationGroups)) :
       \E result \in {convertAllCitations(doc, citationGroups, hexIds)} :
          /\ doc' = IF result.changed THEN result.content ELSE doc
          /\ cmd' = [CmdIdle EXCEPT !.name = "convertAll", !.pc = "done", !.before = doc,
                                    !.mutations = IF result.changed THEN 1 ELSE 0,
                                    !.notice = IF result.changed THEN "Updated citations"
                                               ELSE "No citations needed conversion"]
          /\ usedHexIds' = usedHexIds \cup Range(hexIds)
          /\ issued' = issued \o hexIds
    /\ UNCHANGED <<res, gen>>

\* the host runs one command at a time; one command is followed to its end
SpecCommands ==
    InitCommands /\ [][
    \/ UrlCommand \/ UrlFindCitation \/ UrlModal \/ UrlUseExisting
    \/ UrlDeleteOldFile \/ UrlUpdateUsage \/ UrlExtract \/ UrlCreateFile
    \/ InsertCommand \/ InsertCreateFile \/ ConvertAllInvocation
    ]_vars

----------------------------------------------------------------------------
(* convertCitation and convertAllCitations called on documents that already *)
(* hold footnote markers, with a key that may have no group                 *)

CallDocs ==
    LET CallLines == {<<"x">>,
                      <<"x", "[", "^", "0", "0", "0", "0", "0", "a", "]">>,
                      <<"[", "1", "]">>,
                      <<"[", "1", "]", "[", "2", "]">>,
                      <<"[", "^", "0", "0", "0", "0", "0", "a", "]">>,
                      <<"[", "^", "0", "0", "0", "0", "a", "1", "]", " ", "[", "1", "]">>,
                      <<"[", "1", "]", ":", " ", "T">>,
                      <<"[", "^", "0", "0", "0", "0", "0", "a", "]", ":", " ", "T">>}
    IN
            UNION {{join(ls) : ls \in [1..n -> CallLines]} : n \in 1..MaxLines}

\* an identifier drawn for every call, also for a key without a group
hexIdsOfAlways(pool, citationGroups, citationNumber) ==
    {<<hexId>> : hexId \in generateHexId(pool)}

\* the identifiers one convertCitation call draws: none when the key has no
\* group (the early return), else one from generateHexId
hexIdsOf(pool, citationGroups, citationNumber) ==
    IF groupOf(citationGroups, citationNumber) = 0 THEN {<<>>}
    ELSE {<<hexId>> : hexId \in generateHexId(pool)}

\* convertCitation(content, citationNumber) called with any key
ConvertCitationCall ==
    /\ ops < MaxOps
    /\ \E citationGroups \in {extractCitations(doc)} :
       \E citationNumber \in {citationGroups[g].number : g \in 1..Len(citationGroups)}
                                 \cup {<<"9">>} :
       \E hexIds \in hexIdsOf(usedHexIds, citationGroups, citationNumber) :
       \E result \in {convertCitation(doc, citationGroups, citationNumber,
                                      IF Len(hexIds) = 0 THEN <<>> ELSE hexIds[1])} :
          /\ res' = [op |-> "convertOne", input |-> doc, number |-> citationNumber,
                     content |-> result.content, changed |-> result.changed,
                     citationsConverted |-> result.citationsConverted,
                     hexIds |-> hexIds, pass |-> 0]
          /\ doc' = IF result.changed THEN result.content ELSE doc
          /\ usedHexIds' = usedHexIds \cup Range(hexIds)
          /\ issued' = issued \o hexIds
    /\ ops' = ops + 1
    /\ UNCHANGED <<gen, cmd>>

InitCalls ==
    /\ doc \in CallDocs
    /\ usedHexIds = {}
    /\ issued = <<>>
    /\ res = NoResult
    /\ gen = GenIdle
    /\ ops = 0
    /\ cmd = CmdIdle

SpecCalls == InitCalls /\ [][ConvertAllCommand \/ ConvertCitationCall]_vars

----------------------------------------------------------------------------
(* The citation modal: a snapshot taken by the constructor, buttons that
   convert the snapshot, saveChanges that writes to the active file.  While
   the modal is open cmd holds its fields: content is this.content, active is
   the file workspace.getActiveFile() returns ("opened" is the file of the
   editor the modal was made for, doc being its text), other is the text of
   the second file of the vault, atClick is the text of the editor when the
   last button was clicked, target is the file the last save was written to. *)

\* Show Citations in Current File: new CitationModal(this.app, editor).open()
ShowCitations ==
    /\ cmd = CmdIdle
    /\ cmd' = [pc |-> "open", name |-> "modal", content |-> doc, active |-> "opened",
               other |-> <<"o">>, atClick |-> <<>>, target |-> "none", notice |-> "none"]
    /\ UNCHANGED <<doc, usedHexIds, issued, res, gen, ops>>

\* the text behind the editor changes while the modal shows its snapshot
EditDocument ==
    /\ cmd.pc = "open"
    /\ doc = cmd.content
    /\ doc' = doc \o <<"y">>
    /\ UNCHANGED <<usedHexIds, issued, res, gen, ops, cmd>>

\* the active file of the workspace changes, or no file is active any more
SwitchActiveFile ==
    /\ cmd.pc = "open"
    /\ cmd.active = "opened"
    /\ \E activeFile \in {"other", "none"} : cmd' = [cmd EXCEPT !.active = activeFile]
    /\ UNCHANGED <<doc, usedHexIds, issued, res, gen, ops>>

\* the button of one group: convertCitation(this.content, group.number), then
\* saveChanges(result.content) and close() when the result is changed; the
\* error saveChanges throws without an active file is caught
ModalConvertGroup ==
    /\ cmd.pc = "open"
    /\ ops < MaxOps
    /\ \E citationGroups \in {extractCitations(cmd.content)} :
       \E g \in 1..Len(citationGroups) :
       \E hexIds \in hexIdsOf(usedHexIds, citationGroups, citationGroups[g].number) :
       \E result \in {convertCitation(cmd.content, citationGroups,
                                      citationGroups[g].number, hexIds[1])} :
          /\ res' = [op |-> "modalGroup", input |-> cmd.content,
                     number |-> citationGroups[g].number,
                     content |-> result.content, changed |-> result.changed,
                     citationsConverted |-> result.citationsConverted,
                     hexIds |-> hexIds, pass |-> 0]
          /\ doc' = IF result.changed /\ cmd.active = "opened" THEN result.content ELSE doc
          /\ cmd' = IF ~result.changed
                    THEN [cmd EXCEPT !.atClick = doc,
                                     !.notice = "No changes were made to the document"]
                    ELSE IF cmd.active = "none"
                    THEN [cmd EXCEPT !.atClick = doc, !.notice = "Error converting citation"]
                    ELSE [cmd EXCEPT !.pc = "closed", !.atClick = doc, !.target = cmd.active,
                                     !.other = IF cmd.active = "other" THEN result.content ELSE @,
                                     !.notice = "Converted citation"]
          /\ usedHexIds' = usedHexIds \cup Range(hexIds)
          /\ issued' = issued \o hexIds
    /\ ops' = ops + 1
    /\ UNCHANGED gen

\* the loop of the modal's convertAllCitations over this.citationGroups: each
\* group is converted in the text the groups before it have left, which
\* convertCitation scans again; the outcomes for every choice of identifiers
RECURSIVE modalConvertAllFrom(_, _, _, _, _)
modalConvertAllFrom(updatedContent, groups, pool, totalConverted, hexIds) ==
    IF Len(groups) = 0
    THEN {[content |-> updatedContent, totalConverted |-> totalConverted,
           hexIds |-> hexIds]}
    ELSE LET citationGroups == extractCitations(updatedContent)
             number == groups[1].number
         IN  UNION {LET result == convertCitation(updatedContent, citationGroups, number,
                                                  IF Len(ids) = 0 THEN <<>> ELSE ids[1])
                    IN  modalConvertAllFrom(
                            IF result.changed THEN result.content ELSE updatedContent,
                            Tail(groups), pool \cup Range(ids),
                            IF result.changed
                            THEN totalConverted + result.citationsConverted
                            ELSE totalConverted,
                            hexIds \o ids) :
                    ids \in hexIdsOf(pool, citationGroups, number)}

\* the Convert All button: the loop, then saveChanges(updatedContent) and
\* close() when totalConverted > 0
ModalConvertAll ==
    /\ cmd.pc = "open"
    /\ ops < MaxOps
    /\ \E outcome \in modalConvertAllFrom(cmd.content, extractCitations(cmd.content),
                                          usedHexIds, 0, <<>>) :
          /\ res' = [op |-> "modalAll", input |-> cmd.content, number |-> <<>>,
                     content |-> outcome.content, changed |-> outcome.totalConverted > 0,
                     citationsConverted |-> outcome.totalConverted,
                     hexIds |-> outcome.hexIds, pass |-> 0]
          /\ doc' = IF outcome.totalConverted > 0 /\ cmd.active = "opened"
                    THEN outcome.content ELSE doc
          /\ cmd' = IF outcome.totalConverted = 0
                    THEN [cmd EXCEPT !.atClick = doc, !.notice = "No citations were converted"]
                    ELSE IF cmd.active = "none"
                    THEN [cmd EXCEPT !.atClick = doc, !.notice = "Error converting citations"]
                    ELSE [cmd EXCEPT !.pc = "closed", !.atClick = doc, !.target = cmd.active,
                                     !.other = IF cmd.active = "other" THEN outcome.content ELSE @,
                                     !.notice = "Converted citations"]
          /\ usedHexIds' = usedHexIds \cup Range(outcome.hexIds)
          /\ issued' = issued \o outcome.hexIds
    /\ ops' = ops + 1
    /\ UNCHANGED gen

SpecModal ==
    InitCalls /\ [][ShowCitations \/ EditDocument \/ SwitchActiveFile
                        \/ ModalConvertGroup \/ ModalConvertAll]_vars

----------------------------------------------------------------------------
(* The loop of generateHexId, one iteration at a time, for the base-36     *)
(* generator (radix 36) and the hexadecimal generator (radix 16)           *)

InitGen ==
    /\ doc = <<>>
    /\ usedHexIds = {}
    /\ issued = <<>>
    /\ res = NoResult
    /\ ops = 0
    /\ cmd = CmdIdle
    /\ gen \in {[GenIdle EXCEPT !.radix = r] : r \in {16, 36}}

candidate(radix, num) == IF radix = 16 THEN candidate16(num) ELSE candidate36(num)
loopAgain(radix, hexId, pool) ==
    IF radix = 16 THEN loopAgain16(hexId, pool) ELSE loopAgain36(hexId, pool)
DrawsOf(radix) == IF radix = 16 THEN Draws16 ELSE Draws

\* getNewHexId() is called: the do-while loop is entered
GenCall ==
    /\ gen.pc = "idle"
    /\ gen.radix # 0
    /\ gen' = [gen EXCEPT !.pc = "loop", !.hexId = <<>>, !.attempts = 0]
    /\ UNCHANGED <<doc, usedHexIds, issued, res, ops, cmd>>

\* one iteration whose candidate makes the loop condition true
GenRetry ==
    /\ gen.pc = "loop"
    /\ \E num \in DrawsOf(gen.radix) :
          /\ loopAgain(gen.radix, candidate(gen.radix, num), usedHexIds)
          /\ gen' = [gen EXCEPT !.hexId = candidate(gen.radix, num),
                                !.attempts = Min(gen.attempts + 1, MaxAttempts)]
    /\ UNCHANGED <<doc, usedHexIds, issued, res, ops, cmd>>

\* one iteration whose candidate ends the loop: it is added to the pool and returned
GenReturn ==
    /\ gen.pc = "loop"
    /\ \E num \in DrawsOf(gen.radix) :
       \E hexId \in {candidate(gen.radix, num)} :
          /\ ~loopAgain(gen.radix, hexId, usedHexIds)
          /\ usedHexIds' = usedHexIds \cup {hexId}
          /\ issued' = Append(issued, hexId)
          /\ res' = [NoResult EXCEPT !.op = "generate", !.hexIds = <<hexId>>]
          /\ gen' = [gen EXCEPT !.pc = "idle", !.hexId = hexId,
                                !.attempts = Min(gen.attempts + 1, MaxAttempts)]
    /\ UNCHANGED <<doc, ops, cmd>>

NextGen == GenCall \/ GenRetry \/ GenReturn

SpecGen == InitGen /\ [][NextGen]_vars

\* the loop is run by the one thread of the host: it keeps iterating
SpecGenFair == SpecGen /\ WF_vars(GenRetry \/ GenReturn)

----------------------------------------------------------------------------
(* What a conversion is required to produce: every edit made at the place  *)
(* of its own occurrence, all edits at once                                *)

\* the identifier of the group of a key, when the groups got hexIds in order
idOfKey(groups, hexIds, number) == hexIds[groupOf(groups, number)]

\* is this key among the keys being converted
Converted(groups, only, number) ==
    /\ groupOf(groups, number) # 0
    /\ (only # <<>> => number = only)

\* one body line with each marker of a converted key replaced where it stands
RECURSIVE ReplaceInLine(_, _, _, _, _)
ReplaceInLine(line, i, groups, hexIds, only) ==
    IF i >= Len(line) THEN <<>>
    ELSE LET n == numericCitationAt(line, i)
             h == hexCitationAt(line, i)
             number == IF n > 0 THEN substring(line, i + 1, i + n - 1)
                       ELSE HexPrefix \o substring(line, i + 2, i + h - 1)
             len == IF n > 0 THEN n ELSE h
         IN  IF len > 0 /\ Converted(groups, only, number)
             THEN marker(idOfKey(groups, hexIds, number))
                      \o ReplaceInLine(line, i + len, groups, hexIds, only)
             ELSE IF len > 0
             THEN substring(line, i, i + len)
                      \o ReplaceInLine(line, i + len, groups, hexIds, only)
             ELSE <<line[i + 1]>> \o ReplaceInLine(line, i + 1, groups, hexIds, only)

\* one definition line (label followed by a colon) with its label rewritten
RelabelLine(line, groups, hexIds, only) ==
    LET hex == refMatch(line, TRUE).ok
        rm == refMatch(line, hex)
        number == IF hex THEN HexPrefix \o rm.key ELSE rm.key
    IN  IF Converted(groups, only, number)
        THEN rm.leadingSpaces \o marker(idOfKey(groups, hexIds, number))
                 \o <<":", " ">> \o rm.restOfLine
        ELSE line

\* the required output: only = <<>> converts every group, else the one key
Expected(content, hexIds, only) ==
    LET lines == split(content)
        groups == extractCitations(content)
    IN  join([i \in 1..Len(lines) |->
                 IF isDefinitionWithColon(lines[i])
                 THEN RelabelLine(lines[i], groups, hexIds, only)
                 ELSE ReplaceInLine(lines[i], 0, groups, hexIds, only)])

\* how many times the character c occurs in s
RECURSIVE Count(_, _)
Count(s, c) ==
    IF Len(s) = 0 THEN 0 ELSE (IF s[1] = c THEN 1 ELSE 0) + Count(Tail(s), c)

----------------------------------------------------------------------------
(* Claims *)

\* C1: convertAllCitations is text-offset-safe: its output is the input with
\* every in-text occurrence replaced, at its own place, by the marker of its
\* group's identifier and every definition label rewritten, and nothing else
\* is changed.
C1_ConvertAllOffsetSafe ==
    res.op = "convertAll" => res.content = Expected(res.input, res.hexIds, <<>>)

\* the namespaced keys of the in-text markers of a document, read off line by
\* line without any offsets or grouping
LineKeys(line) ==
    IF Len(line) = 0 \/ isDefinitionWithColon(line) THEN {}
    ELSE {execAll(line, 0, FALSE)[j].key : j \in 1..Len(execAll(line, 0, FALSE))}
         \cup {HexPrefix \o execAll(line, 0, TRUE)[j].key :
                   j \in 1..Len(execAll(line, 0, TRUE))}

CitationKeys(content) ==
    UNION {LineKeys(split(content)[i]) : i \in 1..Len(split(content))}

\* a colon-less numeric definition line `[k] T` holds the document's only T
HasDefinitionText(content) ==
    /\ Count(content, "T") = 1
    /\ \E i \in 1..Len(split(content)) :
          /\ refMatch(split(content)[i], FALSE).ok
          /\ ~isDefinitionWithColon(split(content)[i])
          /\ refMatch(split(content)[i], FALSE).restOfLine = <<"T">>

\* C2: no duplication: when the input holds a numeric definition line
\* `[k] TEXT`, the output of convertAllCitations holds TEXT exactly once.
C2_NoDuplication ==
    (res.op = "convertAll" /\ HasDefinitionText(res.input))
        => Count(res.content, "T") = 1

\* the in-text occurrences of a key in a document
Occurrences(content, number) ==
    LET groups == extractCitations(content)
    IN  IF groupOf(groups, number) = 0 THEN 0
        ELSE countCitations(groups[groupOf(groups, number)].matches)

\* C3: offset safety of convertCitation: with two or more occurrences of the
\* converted number, every occurrence of the group is replaced by the same
\* identifier and all text outside the group's occurrences is unchanged.
C3_ConvertOneOffsetSafe ==
    (res.op = "convertOne" /\ Occurrences(res.input, res.number) >= 2)
        => res.content =
               Expected(res.input,
                        [g \in 1..Len(extractCitations(res.input)) |-> res.hexIds[1]],
                        res.number)

\* no numeric marker or label: no `[` is followed by a digit
FullyFootnote(content) ==
    \A i \in 1..Len(content) : content[i] = "[" => CharAt(content, i) \notin Digit

\* C4: idempotence: on a document already fully in footnote syntax
\* convertAllCitations reports changed = false and returns the document as it is.
C4_Idempotent ==
    (res.op = "convertAll" /\ FullyFootnote(res.input))
        => (~res.changed /\ res.content = res.input)

\* C5: round-trip uniqueness: one convertAllCitations call over a document with
\* N distinct citation keys issues exactly N identifiers, pairwise distinct.
C5_OneIdentifierPerKey ==
    res.op = "convertAll" =>
        /\ Len(res.hexIds) = Cardinality(CitationKeys(res.input))
        /\ \A i, j \in 1..Len(res.hexIds) : i # j => res.hexIds[i] # res.hexIds[j]

C5_Witness ==
    /\ res.op = "convertAll"
    /\ Cardinality(CitationKeys(res.input)) >= 2
    /\ Len(res.hexIds) >= 2

\* C7: over any sequence of identifier requests on one pool no identifier is
\* returned twice, every returned identifier is in the pool when its call has
\* returned, and the pool never loses a member.
C7_PoolNeverRepeats ==
    /\ [](/\ \A i, j \in 1..Len(issued) : i # j => issued[i] # issued[j]
          /\ Range(issued) \subseteq usedHexIds)
    /\ [][usedHexIds \subseteq usedHexIds']_vars

C7_Witness ==
    /\ res.op = "insert"
    /\ Len(issued) >= 2
    /\ \E i \in 1..Len(res.input) : res.input[i] = "^"

\* the first character inside the opening bracket of a marker or of a line
LabelStart(original) == CharAt(original, RunLen(original, 1, Space) + 1)

Separated(content) ==
    LET groups == extractCitations(content)
    IN  \A k \in CitationKeys(content) :
            (~startsWithHex(k) /\ (HexPrefix \o k) \in CitationKeys(content)) =>
                LET a == groupOf(groups, k)
                    b == groupOf(groups, HexPrefix \o k)
                IN  /\ a # 0 /\ b # 0 /\ a # b
                    /\ Cardinality({g \in 1..Len(groups) :
                                       groups[g].number \in {k, HexPrefix \o k}}) = 2
                    /\ \A m \in 1..Len(groups[a].matches) :
                           LabelStart(groups[a].matches[m].original) \in Digit
                    /\ \A m \in 1..Len(groups[b].matches) :
                           LabelStart(groups[b].matches[m].original) = "^"

\* C9: namespace separation: a document with a numeric marker `[k]` and a
\* footnote marker `[^k]` of the same literal k yields two groups with
\* different keys, and no occurrence of one lies in the group of the other.
C9_NamespaceSeparation == Separated(doc)

C9_Witness ==
    /\ res.op = "convertOne"
    /\ res.number = <<"1">>
    /\ HexPrefix \o <<"1">> \in CitationKeys(res.input)
    /\ HexPrefix \o <<"1">> \in CitationKeys(doc)

\* C6: every identifier the generator returns holds at least one letter and
\* at least one digit, with the hexadecimal and with the base-36 alphabet.
C6_ValidIdentifiers ==
    \A i \in 1..Len(issued) : hasLetter36(issued[i]) /\ hasDigit(issued[i])

\* every identifier with a letter and a digit that can be drawn is in the pool
Exhausted ==
    \A num \in DrawsOf(gen.radix) :
        LET hexId == candidate(gen.radix, num)
        IN  (hasLetter36(hexId) /\ hasDigit(hexId)) => hexId \in usedHexIds

\* C8: issue() terminates: called with a pool that holds every valid
\* identifier, the generator gives up (ExhaustedIdentifierSpace) after a
\* bounded number of retries instead of looping forever.
C8_ExhaustedFails == (gen.pc = "loop" /\ Exhausted) ~> (gen.pc = "failed")

\* C10: assureSpacingBetweenCitations is idempotent: applied to its own
\* result it returns that result.
C10_SpacingIdempotent ==
    (res.op = "spacing" /\ res.pass >= 2) => res.content = res.input

\* scenario 1: the body line `x[1].`, then the colon-less definition `[1] T`
Scenario1(sep) == <<"x", "[", "1", "]", ".">> \o sep \o <<"[", "1", "]", " ", "T">>

Scenario1Output(sep, hexId) ==
    <<"x">> \o marker(hexId) \o <<".">> \o sep \o marker(hexId) \o <<":", " ", "T">>

\* C11: end-to-end scenario 1: for a body line ending in a numeric marker and
\* `.`, and a colon-less definition line `[1] BODY`, convertAllCitations gives
\* one in-text `[^id]` right before the `.`, one line `[^id]: BODY` with the
\* same id, and nothing else altered.
C11_Scenario1 ==
    \A sep \in Separators :
        (res.op = "convertAll" /\ res.input = Scenario1(sep))
            => res.content = Scenario1Output(sep, res.hexIds[1])

\* the namespaced key a definition line defines
DefinitionKey(def) ==
    IF refMatch(def, TRUE).ok THEN HexPrefix \o refMatch(def, TRUE).key
    ELSE refMatch(def, FALSE).key

\* scenario 2: two body lines with a marker of the key each, then the one
\* definition line of the key
Scenario2(content, number) ==
    \E b1 \in BodyLines, b2 \in BodyLines, sep \in Separators, def \in DefinitionLines :
        /\ content = b1 \o <<NL>> \o b2 \o sep \o def
        /\ LineKeys(b1) = {number}
        /\ LineKeys(b2) = {number}
        /\ DefinitionKey(def) = number

\* C12: end-to-end scenario 2: with in-text markers of a key on separate lines
\* and one definition line of the key, one convertCitation call replaces all
\* the markers and the definition label with the one new identifier, and
\* leaves the rest as it is.
C12_Scenario2 ==
    (res.op = "convertOne" /\ Scenario2(res.input, res.number))
        => res.content =
               Expected(res.input,
                        [g \in 1..Len(extractCitations(res.input)) |-> res.hexIds[1]],
                        res.number)

\* is line i of the lines inside a References, Sources or Footnotes section:
\* entered at a heading with such a label, left at the next other heading
RECURSIVE InReferencesSection(_, _)
InReferencesSection(lines, i) ==
    IF i = 0 THEN FALSE
    ELSE IF isReferencesHeading(lines[i]) THEN TRUE
    ELSE IF isHeading(lines[i]) THEN FALSE
    ELSE InReferencesSection(lines, i - 1)

\* a line with the punctuation that follows a run of markers put right before
\* the first marker of the run, and the markers of the run one space apart
RECURSIVE PunctuationFirst(_, _)
PunctuationFirst(line, i) ==
    IF i >= Len(line) THEN <<>>
    ELSE LET run == bracketRun(line, i)
             n == runLength(run)
         IN  IF n > 0 /\ CharAt(line, i + n) \in {".", ","}
             THEN <<CharAt(line, i + n)>> \o joinSpaced(run)
                      \o PunctuationFirst(line, i + n + 1)
             ELSE <<line[i + 1]>> \o PunctuationFirst(line, i + 1)

\* C13: moveCitationsBehindPunctuation rewrites, in every body line, each run
\* of adjacent markers followed by `.` or `,` so that the punctuation stands
\* immediately before the first marker, nothing between them, and the markers
\* are one space apart: `a[1][2],b` becomes `a,[1] [2]b`, `t[1].` becomes `t.[1]`.
C13_PunctuationBeforeMarkers ==
    res.op = "move" =>
        LET in == split(res.input)
            out == split(res.content)
        IN  /\ Len(out) = Len(in)
            /\ \A i \in 1..Len(in) :
                   ~InReferencesSection(in, i) => out[i] = PunctuationFirst(in[i], 0)

C14_SameReferenceSameId ==
    (res.op = "convertAll" /\ res.pass = 2)
        => res.hexIds = SubSeq(issued, 1, Len(res.hexIds))

\* a definition line `[k] T`, `[k]: T`, `[k]:T` or `[^k]: T`: a label at the
\* start of the line, an optional colon, and the body T
IsDefinitionOfT(line) ==
    LET rm == refMatch(line, refMatch(line, TRUE).ok)
    IN  rm.ok /\ rm.leadingSpaces = <<>> /\ rm.restOfLine = <<"T">>

\* C15: rewrite-in-place of definitions: after convertAllCitations every
\* definition line of a converted key, written `[k] body`, `[k]: body`,
\* `[k]:body` or `[^k]: body`, reads `[^id]: body` with the identifier of the
\* key's group and the body as it was.
C15_DefinitionsRewritten ==
    res.op = "convertAll" =>
        LET in == split(res.input)
            out == split(res.content)
            groups == extractCitations(res.input)
        IN  \A i \in 1..Len(in) :
                (IsDefinitionOfT(in[i]) /\ groupOf(groups, DefinitionKey(in[i])) # 0)
                    => /\ i <= Len(out)
                       /\ out[i] = marker(idOfKey(groups, res.hexIds, DefinitionKey(in[i])))
                                       \o <<":", " ", "T">>

\* the numeric keys of the in-text markers of a document
NumericKeys(content) == {k \in CitationKeys(content) : ~startsWithHex(k)}

\* every in-text marker is numeric and its key has a definition line with body T
NumericWithDefinitions(content) ==
    /\ CitationKeys(content) # {}
    /\ CitationKeys(content) = NumericKeys(content)
    /\ \A k \in NumericKeys(content) :
           \E i \in 1..Len(split(content)) :
               /\ IsDefinitionOfT(split(content)[i])
               /\ DefinitionKey(split(content)[i]) = k

\* C16: SynthesizeReferenceSection mode: for a document with numeric markers
\* and their definition lines the output has every in-text marker replaced by
\* `[^id]`, ends with a block of one line `[^id]: <referenceText>.` per group,
\* and changed is true.
C16_ReferencesSynthesized ==
    (res.op = "synthesize" /\ NumericWithDefinitions(res.input)) =>
        LET out == split(res.content)
        IN  /\ res.changed
            /\ Len(res.hexIds) = Cardinality(NumericKeys(res.input))
            /\ \A i \in 1..Len(out) : execAll(out[i], 0, FALSE) = <<>>
            /\ \A g \in 1..Len(res.hexIds) :
                   /\ \E i \in 1..Len(out) :
                          out[i] \in {marker(res.hexIds[g]) \o <<":", " ", "T">>,
                                      marker(res.hexIds[g]) \o <<":", " ", "T", ".">>}
                   /\ \E i \in 1..Len(out) :
                          /\ ~isDefinitionWithColon(out[i])
                          /\ indexOf(out[i], marker(res.hexIds[g])) >= 0

\* the reference occurrence of a converted group is followed on its line by
\* the text T, the only T of the document
ReferenceTextT(content, number) ==
    /\ Count(content, "T") = 1
    /\ \E g \in 1..Len(Legacy_extractCitations(content)) :
           /\ number \in {<<>>, Legacy_extractCitations(content)[g].number}
           /\ Count(Legacy_extractCitations(content)[g].referenceText, "T") = 1

\* C17: legacy numeric mode: converting a group whose reference occurrence is
\* followed on its line by reference text gives an output that holds that
\* text exactly once (moved or left in place, never both).
C17_ReferenceTextOnce ==
    (res.op \in {"legacyAll", "legacyOne"} /\ ReferenceTextT(res.input, res.number))
        => Count(res.content, "T") = 1

\* the metadata extraction of the running URL command has failed: the URL
\* was refused, the request failed, or the body could not be parsed
ExtractionFailed ==
    /\ cmd.name = "url"
    /\ cmd.response \in {"notFetched", "networkError", "notOk", "badJson", "null"}

\* C18: when the metadata extraction of Extract Citation from URL fails (URL
\* refused, network error, or a response that cannot be parsed), the command
\* makes no document-mutating host call: the document is the text it started
\* from and the failure is shown as a notice.
C18_FailedExtractionNoMutation ==
    ExtractionFailed =>
        /\ doc = cmd.before
        /\ cmd.mutations = 0
        /\ cmd.pc = "done"
        /\ cmd.notice \notin {"none", "Citation extracted successfully"}

\* C19: every document-mutating command computes its result in memory and
\* applies it to the host document in one single mutation call per
\* invocation, so that no failure of a later step can find the document
\* between two of its edits.
C19_SingleMutationCall == cmd.mutations <= 1

\* the occurrences the scanner returns for a text, group after group
RECURSIVE Scanned(_)
Scanned(groups) ==
    IF Len(groups) = 0 THEN <<>> ELSE groups[1].matches \o Scanned(Tail(groups))

\* a conversion has scanned res.input
HasScanned == res.op \in {"convertAll", "convertOne"}

\* the line matches a reference-definition pattern, with or without a colon
IsDefinitionLine(line) == refMatch(line, FALSE).ok \/ refMatch(line, TRUE).ok

\* C22: role exclusivity per line: on a line that matches a reference-
\* definition pattern (numeric or footnote, with or without a colon after the
\* bracket) the scanner records no occurrence in the Citation role.
C22_RoleExclusivePerLine ==
    HasScanned =>
        \A k \in 1..Len(Scanned(extractCitations(res.input))) :
            LET m == Scanned(extractCitations(res.input))[k]
            IN  ~m.isReference => ~IsDefinitionLine(split(res.input)[m.lineNumber])

\* 0-based offset at which line number n of the text starts
RECURSIVE LineStart(_, _)
LineStart(lines, n) ==
    IF n <= 1 THEN 0 ELSE LineStart(lines, n - 1) + Len(lines[n - 1]) + 1

\* C23: the offset of every Citation occurrence is the position of that very
\* occurrence in the scanned text: the text at the offset is the raw text, the
\* offset lies inside the line of the occurrence's line number, and no two
\* occurrences share an offset, also when a line text occurs more than once.
C23_OffsetsAreOwn ==
    HasScanned =>
        LET all == Scanned(extractCitations(res.input))
            cited == {k \in 1..Len(all) : ~all[k].isReference}
            lines == split(res.input)
        IN  /\ \A k \in cited :
                 /\ substring(res.input, all[k].index, all[k].index + Len(all[k].original))
                        = all[k].original
                 /\ all[k].index >= LineStart(lines, all[k].lineNumber)
                 /\ all[k].index + Len(all[k].original)
                        <= LineStart(lines, all[k].lineNumber) + Len(lines[all[k].lineNumber])
            /\ \A j, k \in cited : j # k => all[j].index # all[k].index

\* C24: the grouping engine partitions the occurrences by key and lists the
\* occurrences of every group in document order (ascending offset), also when
\* the definition line of a key precedes the in-text markers of that key.
C24_GroupsInDocumentOrder ==
    HasScanned =>
        LET groups == extractCitations(res.input)
        IN  /\ \A g, h \in 1..Len(groups) : g # h => groups[g].number # groups[h].number
            /\ \A g \in 1..Len(groups) :
                 /\ \A k \in 1..Len(groups[g].matches) :
                        groups[g].matches[k].number = groups[g].number
                 /\ \A j, k \in 1..Len(groups[g].matches) :
                        j < k => groups[g].matches[j].index <= groups[g].matches[k].index

\* the text holds the marker of the identifier at offset i, in the Citation
\* role: not followed by a colon and not on a definition line
MarkerWritten(content, hexId) ==
    \E n \in 1..Len(split(content)) : \E i \in 0..Len(split(content)[n]) :
        /\ OccursAt(split(content)[n], marker(hexId), i)
        /\ CharAt(split(content)[n], i + Len(marker(hexId))) # ":"
        /\ ~isDefinitionWithColon(split(content)[n])

\* the text holds the definition line of the identifier and a marker of it
DefinitionWritten(content, hexId) ==
    /\ MarkerWritten(content, hexId)
    /\ \E n \in 1..Len(split(content)) :
           OccursAt(split(content)[n], marker(hexId) \o <<":">>, 0)

\* C28: rewrite then scan round-trips: for every identifier the generator can
\* issue, the marker and the definition line that a conversion wrote are found
\* again by a scan of the output, as a footnote occurrence and a footnote
\* reference definition with the identifier as key.
C28_RewriteScanRoundTrip ==
    (HasScanned /\ res.changed) =>
        \A h \in 1..Len(res.hexIds) :
            LET groups == extractCitations(res.content)
                g == groupOf(groups, hexKey(res.hexIds[h]))
            IN  /\ MarkerWritten(res.content, res.hexIds[h]) =>
                       /\ g # 0
                       /\ \E k \in 1..Len(groups[g].matches) :
                              /\ ~groups[g].matches[k].isReference
                              /\ groups[g].matches[k].original = marker(res.hexIds[h])
                /\ DefinitionWritten(res.content, res.hexIds[h]) =>
                       /\ g # 0
                       /\ \E k \in 1..Len(groups[g].matches) : groups[g].matches[k].isReference

\* the call scanned a text in which it had nothing to convert: no group at
\* all for convertAllCitations, no group of the key for convertCitation
ZeroEffect(op, content, number) ==
    \/ op = "convertAll" /\ Len(extractCitations(content)) = 0
    \/ op = "convertOne" /\ groupOf(extractCitations(content), number) = 0

\* C21: for ConvertAll and ConvertOne the changed flag is true exactly when
\* the returned text differs from the input text, and a zero-effect call (no
\* markers, or an unknown key) returns changed = false and citationsConverted
\* = 0 as an ordinary result.
C21_ChangedIffDifferent ==
    HasScanned =>
        /\ res.changed <=> res.content # res.input
        /\ ZeroEffect(res.op, res.input, res.number) =>
               ~res.changed /\ res.citationsConverted = 0

\* C25: zero-effect calls leave the identifier pool unchanged: convertCitation
\* with a key that has no group, and convertAllCitations on a document without
\* groups, issue no identifier and return the input text itself.
C25_ZeroEffectKeepsPool ==
    [][(ops' = ops + 1 /\ ZeroEffect(res'.op, res'.input, res'.number)) =>
           /\ usedHexIds' = usedHexIds
           /\ issued' = issued
           /\ res'.content = res'.input
           /\ doc' = doc]_vars

\* two zero-effect calls have been made in one session, the second one a
\* convertCitation with a key that has no group
C25_Witness ==
    /\ ops = 2
    /\ res.op = "convertOne"
    /\ ZeroEffect(res.op, res.input, res.number)
    /\ usedHexIds = {}

\* the groups of the scanned text, other than the one converted under
\* position h, whose key is the footnote id that position h was given
MergedWith(h) ==
    {g \in 1..Len(extractCitations(res.input)) :
        /\ extractCitations(res.input)[g].number = hexKey(res.hexIds[h])
        /\ IF res.op = "convertAll" THEN g # h
           ELSE extractCitations(res.input)[g].number # res.number}

\* C27: the identifier that ConvertOne or ConvertAll gives to a group is never
\* a footnote id that the same document already holds for another citation,
\* so that no conversion merges two citations under one id.
C27_NoMergeWithExistingId ==
    HasScanned => \A h \in 1..Len(res.hexIds) : MergedWith(h) = {}

\* C26: every identifier written into a document as a newly generated footnote
\* id, on every path (ConvertAll, ConvertOne, Insert Hex Citation, Extract
\* Citation from URL), was issued by the shared identifier pool: it is exactly
\* six characters long, is a member of the pool, and differs from every
\* identifier issued earlier in the session.
C26_WrittenIdsFromPool ==
    /\ \A i \in 1..Len(issued) :
          /\ Len(issued[i]) = IdLen
          /\ issued[i] \in usedHexIds
          /\ \A j \in 1..(i - 1) : issued[j] # issued[i]
    /\ (cmd.pc = "createCitationFile" /\ cmd.mutations > 0) =>
          /\ Len(cmd.hexId) = IdLen
          /\ cmd.hexId \in usedHexIds
          /\ Cardinality({i \in 1..Len(issued) : issued[i] = cmd.hexId}) = 1

\* C29: a conversion triggered from the citation modal is computed from the
\* text the document has when the button is clicked and is written to the
\* file that text was read from, so that no edit of the document and no change
\* of the active file between the snapshot and the click is overwritten or
\* lost.
C29_ModalWritesCurrentText ==
    (cmd.pc = "closed" /\ res.op \in {"modalGroup", "modalAll"}) =>
        /\ res.input = cmd.atClick
        /\ cmd.target = "opened"

\* C30: for every document, the Convert All Citations command (one
\* convertAllCitations call over one snapshot) and the modal's Convert All
\* (convertCitation group by group, each on the rescanned text) produce the
\* same document up to the choice of identifiers.
C30_ModalAllAsCommand ==
    res.op = "modalAll" =>
        \E hexIds \in generateHexIds({}, Len(extractCitations(res.input))) :
            convertAllCitations(res.input, extractCitations(res.input), hexIds).content
                = res.content

====
